---- MODULE Spec2Model ----
(***************************************************************************)
(* Payment confirmation and order materialisation of the store backend.    *)
(*                                                                         *)
(* Spec      : the payment controller (webhookPayment of                   *)
(*             src/unnamed/part_012, lines 1619-1772) behind the raw-body  *)
(*             middleware of app.js (src/src/routes/paymentRoutes.js,      *)
(*             lines 115-133).                                             *)
(* SpecOrder, SpecOrderCtl, SpecCustomer, SpecMail : the order controllers, *)
(*             the customer builder and the mail sender, each introduced   *)
(*             further down with the source it models.                     *)
(*                                                                         *)
(* Monetary values in GHS are whole numbers of GHS; gateway amounts are    *)
(* in pesewas (MinorPerUnit pesewas to one GHS).  A field a JavaScript     *)
(* object does not carry (undefined) is a field the record does not have.  *)
(***************************************************************************)
EXTENDS Integers, Sequences, FiniteSets, TLC

(* ------------------------------ bounds -------------------------------- *)
MaxCalls == 2
MaxTxns == 1
MaxTicks == 2
TickMs == 6000

(* ------------------------- program constants -------------------------- *)
NewOrderWindowMs == 10000
ToleranceMinor == 100
MinorPerUnit == 100

VARIABLES orders, carts, counter, mail, now, calls, adminEmail, paid, norm, smtp

vars == <<orders, carts, counter, mail, now, calls, adminEmail, paid, norm, smtp>>

Calls == 1..MaxCalls

Null == "null"

(* The customer builder and the mail sender are not running. *)
NoNorm == [pc |-> "off"]

NoSmtp == [pc |-> "off"]

Has(r, f) == f \in DOMAIN r

Abs(x) == IF x < 0 THEN -x ELSE x

Max(a, b) == IF a > b THEN a ELSE b

RECURSIVE SumSeq(_)
SumSeq(s) == IF s = <<>> THEN 0 ELSE Head(s) + SumSeq(Tail(s))

(* ------------------------------ catalog ------------------------------- *)
Catalog ==
  [d1 |-> <<[pack |-> "A", price |-> 10], [pack |-> "B", price |-> 18]>>,
   d2 |-> <<[pack |-> "A", price |-> 7]>>]

(* The pack a product resolves to: the pack with the requested name, else
   the product's first pack. *)
SelectedPack(drinkId, pack) ==
  LET packs == Catalog[drinkId]
      hit == {i \in 1..Len(packs) : packs[i].pack = pack}
  IN IF hit # {} THEN packs[CHOOSE i \in hit : \A j \in hit : i <= j]
     ELSE packs[1]

(* ------------------------- gateway payloads --------------------------- *)
Ama == [fullName |-> "Ama", email |-> "ama@x.gh"]

AmaNoEmail == [fullName |-> "Ama"]

ItOrange == [drinkId |-> "d1", name |-> "Orange", pack |-> "A", price |-> 10,
             quantity |-> 2, image |-> "o.png"]

ItMango == [drinkId |-> "d2", name |-> "Mango", pack |-> "A", price |-> 7,
            quantity |-> 1, image |-> "m.png"]

ItUnderquoted == [ItOrange EXCEPT !.price = 1]

ItNoDrink == [name |-> "Orange", pack |-> "A", price |-> 10, quantity |-> 2,
              image |-> "o.png"]

Charge(ref, amount, metadata) ==
  [event |-> "charge.success", reference |-> ref, amount |-> amount,
   metadata |-> metadata]

PaymentPayloads ==
  { Charge("R1", 2700, [userId |-> "u1", customer |-> Ama,
                        items |-> <<ItOrange, ItMango>>]),
    Charge("R2", 200, [userId |-> "u1", customer |-> Ama,
                       items |-> <<ItUnderquoted>>]),
    Charge("R3", 2000, [customer |-> Ama, items |-> <<ItOrange>>]),
    Charge("R4", 2000, [userId |-> "u1", customer |-> AmaNoEmail,
                        items |-> <<ItOrange>>]),
    Charge("R5", 25000, [userId |-> "u1", customer |-> Ama,
                         items |-> <<ItOrange>>]),
    Charge("R6", 2100, [userId |-> "u2", customer |-> Ama,
                        items |-> <<ItOrange>>]),
    Charge("R7", 2000, [userId |-> "u1", customer |-> Ama, items |-> <<>>]),
    Charge("R8", 2000, [userId |-> "u1", customer |-> Ama,
                        items |-> <<ItNoDrink>>]),
    [event |-> "charge.failed", reference |-> "R9", amount |-> 2000,
     metadata |-> [userId |-> "u1", customer |-> Ama,
                   items |-> <<ItOrange>>]],
    Charge("R10", 2700, [userId |-> "u1", fullName |-> "Ama",
                         email |-> "ama@x.gh",
                         cart |-> <<ItOrange, ItMango>>]) }

(* ------------------------ bodies and signatures ----------------------- *)
Fmts == {"compact", "spaced"}

Secret == "sk"

JSONparse(raw) == raw.content

JSONstringify(obj) == [content |-> obj, fmt |-> "compact"]

(* HMAC-SHA512 hex digest: a collision-free function of key and bytes. *)
Hmac(key, raw) == <<key, raw>>

NoHeader == <<>>

(* What an attacker makes of a signed body without the secret: another item
   list under the same reference. *)
Tampered(p) ==
  IF Has(p.metadata, "items")
  THEN [p EXCEPT !.metadata = [@ EXCEPT !.items = <<ItMango, ItMango>>]]
  ELSE [p EXCEPT !.metadata = [@ EXCEPT !.cart = <<ItMango, ItMango>>]]

(* The requests that can reach the webhook route: the gateway posts a paid
   transaction in either layout, signed over the bytes it sends; anyone may
   post the transaction or a tampered copy in either layout, with a header
   taken from a gateway request or with none. *)
GatewayRaws == {[content |-> t, fmt |-> f] : t \in paid, f \in Fmts}

WebhookRequests ==
  {[raw |-> [content |-> p, fmt |-> f], header |-> h] :
     p \in paid \cup {Tampered(t) : t \in paid},
     f \in Fmts,
     h \in {Hmac(Secret, r) : r \in GatewayRaws} \cup {NoHeader}}

NoReq == [raw |-> <<>>, header |-> NoHeader]

(* express.raw() hands the route the bytes as a Buffer; the middleware of
   app.js replaces them by the parsed object. *)
RawBodyMiddleware(req) ==
  [body |-> [isBuffer |-> FALSE, obj |-> JSONparse(req.raw)],
   rawBody |-> req.raw,
   header |-> req.header]

verifyPaystackSignature(req) ==
  LET raw == IF req.body.isBuffer THEN req.body.raw
             ELSE JSONstringify(req.body.obj)
      hash == Hmac(Secret, raw)
  IN hash = req.header

(* ---------------------------- normalizeItems -------------------------- *)
NormalizeItem(item) ==
  LET price == IF Has(item, "price") THEN item.price ELSE 0
      quantity == Max(1, IF Has(item, "quantity") /\ item.quantity # 0
                         THEN item.quantity ELSE 1)
  IN [drinkId |-> item.drinkId,
      name |-> IF Has(item, "name") THEN item.name ELSE "Item",
      pack |-> IF Has(item, "pack") THEN item.pack ELSE "",
      price |-> price,
      quantity |-> quantity,
      subtotal |-> price * quantity,
      image |-> IF Has(item, "image") THEN item.image ELSE ""]

normalizeItems(items) ==
  LET kept == SelectSeq(items, LAMBDA it : Has(it, "drinkId"))
      normalized == [i \in 1..Len(kept) |-> NormalizeItem(kept[i])]
  IN [items |-> normalized,
      total |-> SumSeq([i \in 1..Len(normalized) |-> normalized[i].subtotal]),
      totalQty |-> SumSeq([i \in 1..Len(normalized) |-> normalized[i].quantity])]

(* ------------------------------- store -------------------------------- *)
OrdersFor(ref) == {o \in orders : o.paystackReference = ref}

InitCarts ==
  {[userId |-> "u1", drinkId |-> "d1", pack |-> "A", quantity |-> 2],
   [userId |-> "u1", drinkId |-> "d2", pack |-> "A", quantity |-> 1],
   [userId |-> "u2", drinkId |-> "d1", pack |-> "B", quantity |-> 1]}

CartDeleteMany(userId) == {e \in carts : e.userId # userId}

(* --------------------------- call bookkeeping ------------------------- *)
Resp(status, text) == [status |-> status, text |-> text]

NoResp == Resp(0, "")

IdleCall ==
  [pc |-> "idle", req |-> NoReq, resp |-> NoResp, gotCreatedAt |-> -1,
   inserted |-> FALSE, isNew |-> FALSE, storeFailed |-> FALSE,
   cleared |-> FALSE, clearFailed |-> FALSE, num |-> <<>>,
   verify |-> FALSE, gatewayFailed |-> FALSE,
   checkout |-> FALSE, items |-> <<>>, total |-> 0,
   cartItem |-> <<>>, existingItem |-> <<>>]

Payload(c) == JSONparse(calls[c].req.raw)

Finish(c, status, text) ==
  [calls EXCEPT ![c].pc = "done", ![c].resp = Resp(status, text)]

(* Calls are numbered in the order in which they arrive. *)
Arrives(c) ==
  /\ calls[c].pc = "idle"
  /\ IF c = 1 THEN TRUE ELSE calls[c - 1].pc # "idle"

(* ------------------- webhookPayment (payment controller) -------------- *)
AmountMismatch(paystackAmount, totalAmount) ==
  LET expectedAmount == totalAmount * MinorPerUnit
      amountDifference == Abs(paystackAmount - expectedAmount)
  IN amountDifference > ToleranceMinor

(* The handler refusing a mismatching amount instead of flagging it. *)
WebhookEntryRefusingMismatch(req) ==
  IF ~verifyPaystackSignature(req)
  THEN [pc |-> "done", resp |-> Resp(401, "Invalid signature")]
  ELSE IF req.body.isBuffer \/ req.body.obj.event # "charge.success"
  THEN [pc |-> "done", resp |-> Resp(200, "Event ignored")]
  ELSE LET md == req.body.obj.metadata IN
    IF ~Has(md, "items") \/ Len(md.items) = 0
    THEN [pc |-> "done", resp |-> Resp(400, "Invalid order items")]
    ELSE IF ~Has(md, "customer") \/ ~Has(md.customer, "email")
    THEN [pc |-> "done", resp |-> Resp(400, "Invalid customer data")]
    ELSE LET n == normalizeItems(md.items) IN
      IF Len(n.items) = 0
      THEN [pc |-> "done", resp |-> Resp(400, "No valid items")]
      ELSE IF AmountMismatch(req.body.obj.amount, n.total)
      THEN [pc |-> "done", resp |-> Resp(400, "Amount mismatch")]
      ELSE [pc |-> "upsert", resp |-> NoResp]

(* The handler up to its first await: signature, event, validation and the
   amount check. *)
WebhookEntry(req) ==
  IF ~verifyPaystackSignature(req)
  THEN [pc |-> "done", resp |-> Resp(401, "Invalid signature")]
  ELSE IF req.body.isBuffer \/ req.body.obj.event # "charge.success"
  THEN [pc |-> "done", resp |-> Resp(200, "Event ignored")]
  ELSE LET md == req.body.obj.metadata IN
    IF ~Has(md, "items") \/ Len(md.items) = 0
    THEN [pc |-> "done", resp |-> Resp(400, "Invalid order items")]
    ELSE IF ~Has(md, "customer") \/ ~Has(md.customer, "email")
    THEN [pc |-> "done", resp |-> Resp(400, "Invalid customer data")]
    ELSE LET n == normalizeItems(md.items) IN
      IF Len(n.items) = 0
      THEN [pc |-> "done", resp |-> Resp(400, "No valid items")]
      ELSE IF AmountMismatch(req.body.obj.amount, n.total) /\ adminEmail
      THEN [pc |-> "alert", resp |-> NoResp]
      ELSE [pc |-> "upsert", resp |-> NoResp]

Receive(c) ==
  /\ Arrives(c)
  /\ \E r \in WebhookRequests :
       LET e == WebhookEntry(RawBodyMiddleware(r))
       IN calls' = [calls EXCEPT ![c].pc = e.pc, ![c].req = r, ![c].resp = e.resp]
  /\ UNCHANGED <<orders, carts, counter, mail, now, adminEmail, paid, norm, smtp>>

Mail(c, kind, ref, ok) == [call |-> c, kind |-> kind, ref |-> ref, ok |-> ok]

(* await sendEmail(...) of the mismatch alert, inside try/catch *)
SendMismatchAlert(c) ==
  /\ calls[c].pc = "alert"
  /\ \E ok \in BOOLEAN :
       mail' = mail \cup {Mail(c, "mismatch", Payload(c).reference, ok)}
  /\ calls' = [calls EXCEPT ![c].pc = "upsert"]
  /\ UNCHANGED <<orders, carts, counter, now, adminEmail, paid, norm, smtp>>

(* The filter matching nothing: every upsert inserts, as without the unique
   index on paystackReference. *)
UpsertMatchNothing(ref) == {}

(* The documents the filter {paystackReference: reference} matches. *)
UpsertMatch(ref) == OrdersFor(ref)

InsertedOrder(p) ==
  LET md == p.metadata
      n == normalizeItems(md.items)
  IN [id |-> Cardinality(orders) + 1,
      userId |-> IF Has(md, "userId") THEN md.userId ELSE Null,
      customer |-> md.customer,
      items |-> n.items,
      totalAmount |-> n.total,
      totalItems |-> n.totalQty,
      paystackReference |-> p.reference,
      paymentStatus |-> "paid",
      orderStatus |-> "confirmed",
      orderNumber |-> <<>>,
      createdAt |-> now]

(* Order.findOneAndUpdate(..., {$setOnInsert}, {upsert: true, new: true}) on
   the uniquely indexed paystackReference: one atomic step of the store. *)
Upsert(c) ==
  /\ calls[c].pc = "upsert"
  /\ LET p == Payload(c)
         found == UpsertMatch(p.reference)
     IN IF found # {}
        THEN /\ orders' = orders
             /\ \E o \in found :
                  calls' = [calls EXCEPT ![c].pc = "upserted",
                                         ![c].gotCreatedAt = o.createdAt]
        ELSE /\ orders' = orders \cup {InsertedOrder(p)}
             /\ calls' = [calls EXCEPT ![c].pc = "upserted",
                                       ![c].gotCreatedAt = now,
                                       ![c].inserted = TRUE]
  /\ UNCHANGED <<carts, counter, mail, now, adminEmail, paid, norm, smtp>>

(* The store rejects the operation: the handler's catch answers 500. *)
UpsertFails(c) ==
  /\ calls[c].pc = "upsert"
  /\ calls' = [Finish(c, 500, "Webhook processing failed") EXCEPT ![c].storeFailed = TRUE]
  /\ UNCHANGED <<orders, carts, counter, mail, now, adminEmail, paid, norm, smtp>>

isNewOrder(createdAt) == createdAt > now - NewOrderWindowMs

(* After the upsert: the duplicate test, the detached notification sends
   (sendCustomerEmail and sendAdminEmail start their sendEmail at once; the
   outcome is not awaited) and the branch to the cart deletion. *)
AfterUpsert(c) ==
  /\ calls[c].pc = "upserted"
  /\ LET p == Payload(c)
         md == p.metadata
     IN IF ~isNewOrder(calls[c].gotCreatedAt)
        THEN /\ calls' = Finish(c, 200, "Order already processed")
             /\ mail' = mail
        ELSE /\ \E okC \in BOOLEAN :
                  \E okA \in IF adminEmail THEN BOOLEAN ELSE {FALSE} :
                    mail' = mail
                      \cup (IF Has(md.customer, "email")
                            THEN {Mail(c, "customer", p.reference, okC)} ELSE {})
                      \cup (IF adminEmail
                            THEN {Mail(c, "admin", p.reference, okA)} ELSE {})
             /\ calls' = IF Has(md, "userId")
                         THEN [calls EXCEPT ![c].pc = "clearCart", ![c].isNew = TRUE]
                         ELSE [Finish(c, 200, "Webhook processed successfully")
                                 EXCEPT ![c].isNew = TRUE]
  /\ UNCHANGED <<orders, carts, counter, now, adminEmail, paid, norm, smtp>>

(* await Cart.deleteMany({userId}) inside try/catch, then the 200 *)
ClearCart(c) ==
  /\ calls[c].pc = "clearCart"
  /\ \E ok \in BOOLEAN :
       /\ carts' = IF ok THEN CartDeleteMany(Payload(c).metadata.userId) ELSE carts
       /\ calls' = [Finish(c, 200, "Webhook processed successfully")
                      EXCEPT ![c].cleared = ok, ![c].clearFailed = ~ok]
  /\ UNCHANGED <<orders, counter, mail, now, adminEmail, paid, norm, smtp>>

Tick ==
  /\ now < MaxTicks * TickMs
  /\ now' = now + TickMs
  /\ UNCHANGED <<orders, carts, counter, mail, calls, adminEmail, paid, norm, smtp>>

Init ==
  /\ orders = {}
  /\ carts = InitCarts
  /\ counter = 0
  /\ mail = {}
  /\ now = 0
  /\ calls = [c \in Calls |-> IdleCall]
  /\ adminEmail \in BOOLEAN
  /\ paid \in {S \in SUBSET PaymentPayloads : Cardinality(S) = MaxTxns}
  /\ norm = NoNorm
  /\ smtp = NoSmtp

Next ==
  \/ \E c \in Calls : Receive(c)
  \/ \E c \in Calls : SendMismatchAlert(c)
  \/ \E c \in Calls : Upsert(c)
  \/ \E c \in Calls : UpsertFails(c)
  \/ \E c \in Calls : AfterUpsert(c)
  \/ \E c \in Calls : ClearCart(c)
  \/ Tick

Spec == Init /\ [][Next]_vars

(***************************************************************************)
(* SpecOrder : the order controller (webhookPayment of                     *)
(*             src/unnamed/part_014, lines 282-381), mounted by the orders *)
(*             router behind express.json(); it checks no signature and    *)
(*             reads the item list under metadata.cart.                    *)
(***************************************************************************)
OrderNumberWidth == 6

RECURSIVE Digits(_)
Digits(n) == IF n < 10 THEN <<n>> ELSE Digits(n \div 10) \o <<n % 10>>

PadStart(s, len, ch) ==
  IF Len(s) >= len THEN s ELSE [i \in 1..(len - Len(s)) |-> ch] \o s

(* String(counter.seq).padStart(6, "0"), as its sequence of digits *)
OrderNumberOf(seq) == PadStart(Digits(seq), OrderNumberWidth, 0)

ItNoImage == [drinkId |-> "d1", name |-> "Orange", pack |-> "A", price |-> 10,
              quantity |-> 2]

OrderPayloads ==
  { Charge("R1", 2700, [userId |-> "u1", customer |-> Ama,
                        cart |-> <<ItOrange, ItMango>>]),
    Charge("R2", 25000, [userId |-> "u1", customer |-> Ama,
                         cart |-> <<ItOrange>>]),
    Charge("R3", 2000, [customer |-> Ama, cart |-> <<ItOrange>>]),
    Charge("R4", 2000, [userId |-> "u1", customer |-> AmaNoEmail,
                        cart |-> <<ItOrange>>]),
    Charge("R5", 2000, [userId |-> "u2", customer |-> Ama,
                        cart |-> <<ItNoImage>>]),
    Charge("R6", 2000, [userId |-> "u1", customer |-> Ama,
                        items |-> <<ItOrange>>]),
    Charge("R7", 2000, [userId |-> "u1", customer |-> Ama, cart |-> <<>>]),
    [event |-> "charge.failed", reference |-> "R9", amount |-> 2000,
     metadata |-> [userId |-> "u1", customer |-> Ama,
                   cart |-> <<ItOrange>>]] }

OrderWebhookRequests ==
  {[raw |-> [content |-> p, fmt |-> f], header |-> NoHeader] :
     p \in paid, f \in {"compact"}}

EmptyObject == <<>>

(* replace(/\bnull\b/gi, "").trim() on the values a field takes here: the
   stray text "null" is removed, any other value is kept. *)
StripNull(v) == IF v = "null" THEN "" ELSE v

sanitizeCustomer(input) ==
  [fullName |-> StripNull(IF Has(input, "fullName") THEN input.fullName ELSE ""),
   email |-> StripNull(IF Has(input, "email") THEN input.email ELSE "")]

(* An item the handler completes from the catalog: no name, no image or a
   price that is not a number. *)
NeedsLookup(item) ==
  \/ ~Has(item, "name") \/ item.name = ""
  \/ ~Has(item, "image") \/ item.image = ""
  \/ ~Has(item, "price")

OrdItem(item) ==
  [drinkId |-> item.drinkId,
   image |-> item.image,
   name |-> item.name,
   pack |-> IF Has(item, "pack") /\ item.pack # "" THEN item.pack ELSE Null,
   price |-> item.price,
   quantity |-> IF Has(item, "quantity") /\ item.quantity # 0
                THEN item.quantity ELSE 1]

(* The handler up to its first store access.  The catalog lookup names
   Drink, which the module does not import (it imports drinks): the lookup
   throws a ReferenceError, the mapped promise rejects and the catch answers
   500. *)
OrdWebhookEntry(body) ==
  IF body.event # "charge.success"
  THEN [pc |-> "done", resp |-> Resp(200, "Ignored")]
  ELSE LET md == body.metadata IN
    IF ~Has(md, "cart") \/ ~Has(md, "userId")
    THEN [pc |-> "done", resp |-> Resp(400, "Missing metadata")]
    ELSE IF \E i \in 1..Len(md.cart) : NeedsLookup(md.cart[i])
    THEN [pc |-> "done", resp |-> Resp(500, "Webhook failed")]
    ELSE [pc |-> "find", resp |-> NoResp]

OrdReceive(c) ==
  /\ Arrives(c)
  /\ \E r \in OrderWebhookRequests :
       LET e == OrdWebhookEntry(JSONparse(r.raw))
       IN calls' = [calls EXCEPT ![c].pc = e.pc, ![c].req = r, ![c].resp = e.resp]
  /\ UNCHANGED <<orders, carts, counter, mail, now, adminEmail, paid, norm, smtp>>

(* let order = await Order.findOne({paystackReference: reference}) *)
OrdFind(c) ==
  /\ calls[c].pc = "find"
  /\ calls' = [calls EXCEPT ![c].pc = IF OrdersFor(Payload(c).reference) # {}
                                      THEN "ordClearCart" ELSE "number"]
  /\ UNCHANGED <<orders, carts, counter, mail, now, adminEmail, paid, norm, smtp>>

(* The increment read and written back in two steps, the write lost. *)
getNextOrderNumberLostUpdate(c) ==
  /\ calls[c].pc = "number"
  /\ counter' = counter
  /\ calls' = [calls EXCEPT ![c].pc = "create", ![c].num = OrderNumberOf(counter + 1)]
  /\ UNCHANGED <<orders, carts, mail, now, adminEmail, paid, norm, smtp>>

(* getNextOrderNumber: Counter.findOneAndUpdate({$inc: {seq: 1}}, upsert) *)
getNextOrderNumber(c) ==
  /\ calls[c].pc = "number"
  /\ counter' = counter + 1
  /\ calls' = [calls EXCEPT ![c].pc = "create", ![c].num = OrderNumberOf(counter + 1)]
  /\ UNCHANGED <<orders, carts, mail, now, adminEmail, paid, norm, smtp>>

OrdCreatedOrder(c) ==
  LET p == Payload(c)
      md == p.metadata
  IN [id |-> Cardinality(orders) + 1,
      userId |-> md.userId,
      customer |-> sanitizeCustomer(IF Has(md, "customer") THEN md.customer
                                    ELSE EmptyObject),
      items |-> [i \in 1..Len(md.cart) |-> OrdItem(md.cart[i])],
      totalAmount |-> p.amount \div MinorPerUnit,
      paystackReference |-> p.reference,
      paymentStatus |-> "paid",
      orderStatus |-> "confirmed",
      orderNumber |-> calls[c].num,
      createdAt |-> now]

(* The validators of the Order schema that the modelled fields can fail. *)
SchemaValid(doc) ==
  /\ doc.customer.fullName # ""
  /\ doc.customer.email # ""
  /\ Len(doc.items) > 0
  /\ \A i \in 1..Len(doc.items) : doc.items[i].price >= 0 /\ doc.items[i].quantity >= 1
  /\ doc.totalAmount >= 0

(* Order.create: schema validation, then the insert under the unique index
   on paystackReference; either failure throws and the catch answers 500. *)
OrdCreate(c) ==
  /\ calls[c].pc = "create"
  /\ LET doc == OrdCreatedOrder(c)
     IN IF ~SchemaValid(doc) \/ OrdersFor(doc.paystackReference) # {}
        THEN /\ orders' = orders
             /\ calls' = Finish(c, 500, "Webhook failed")
        ELSE /\ orders' = orders \cup {doc}
             /\ calls' = [calls EXCEPT ![c].pc = IF doc.customer.email # ""
                                                  THEN "customerMail"
                                                  ELSE IF adminEmail THEN "adminMail"
                                                  ELSE "ordClearCart",
                                       ![c].inserted = TRUE, ![c].isNew = TRUE]
  /\ UNCHANGED <<carts, counter, mail, now, adminEmail, paid, norm, smtp>>

OrdCreateFails(c) ==
  /\ calls[c].pc = "create"
  /\ calls' = [Finish(c, 500, "Webhook failed") EXCEPT ![c].storeFailed = TRUE]
  /\ UNCHANGED <<orders, carts, counter, mail, now, adminEmail, paid, norm, smtp>>

(* if (customer.email) await sendEmail(...) inside try/catch *)
OrdCustomerEmail(c) ==
  /\ calls[c].pc = "customerMail"
  /\ \E ok \in BOOLEAN :
       mail' = mail \cup {Mail(c, "customer", Payload(c).reference, ok)}
  /\ calls' = [calls EXCEPT ![c].pc = IF adminEmail THEN "adminMail"
                                      ELSE "ordClearCart"]
  /\ UNCHANGED <<orders, carts, counter, now, adminEmail, paid, norm, smtp>>

(* if (process.env.ADMIN_EMAIL) await sendEmail(...) inside try/catch *)
OrdAdminEmail(c) ==
  /\ calls[c].pc = "adminMail"
  /\ \E ok \in BOOLEAN :
       mail' = mail \cup {Mail(c, "admin", Payload(c).reference, ok)}
  /\ calls' = [calls EXCEPT ![c].pc = "ordClearCart"]
  /\ UNCHANGED <<orders, carts, counter, now, adminEmail, paid, norm, smtp>>

(* await Cart.deleteMany({userId}) inside try/catch, then 200 "OK" *)
OrdClearCart(c) ==
  /\ calls[c].pc = "ordClearCart"
  /\ \E ok \in BOOLEAN :
       /\ carts' = IF ok THEN CartDeleteMany(Payload(c).metadata.userId) ELSE carts
       /\ calls' = [Finish(c, 200, "OK")
                      EXCEPT ![c].cleared = ok, ![c].clearFailed = ~ok]
  /\ UNCHANGED <<orders, counter, mail, now, adminEmail, paid, norm, smtp>>

InitOrder ==
  /\ orders = {}
  /\ carts = InitCarts
  /\ counter = 0
  /\ mail = {}
  /\ now = 0
  /\ calls = [c \in Calls |-> IdleCall]
  /\ adminEmail \in BOOLEAN
  /\ paid \in {S \in SUBSET OrderPayloads : Cardinality(S) = MaxTxns}
  /\ norm = NoNorm
  /\ smtp = NoSmtp

NextOrder ==
  \/ \E c \in Calls : OrdReceive(c)
  \/ \E c \in Calls : OrdFind(c)
  \/ \E c \in Calls : getNextOrderNumber(c)
  \/ \E c \in Calls : OrdCreate(c)
  \/ \E c \in Calls : OrdCreateFails(c)
  \/ \E c \in Calls : OrdCustomerEmail(c)
  \/ \E c \in Calls : OrdAdminEmail(c)
  \/ \E c \in Calls : OrdClearCart(c)

SpecOrder == InitOrder /\ [][NextOrder]_vars

(***************************************************************************)
(* SpecCustomer : the customer object that webhookPayment of                *)
(*                src/unnamed/part_010 (lines 153-170; the same expression  *)
(*                in src/unnamed/part_009, lines 120-157) builds from the   *)
(*                metadata and the gateway's customer.  The fields          *)
(*                fullName, email and address are modelled; phone, city and *)
(*                country are built like email and address.                 *)
(***************************************************************************)
(* The value undefined; String(undefined) is the text "undefined", and
   String(null) is the text "null". *)
Undefined == "undefined"

Truthy(v) == v \notin {Undefined, Null, ""}

(* a || b *)
Or(a, b) == IF Truthy(a) THEN a ELSE b

(* obj?.f of an object that may lack f *)
Get(obj, f) == IF Has(obj, f) THEN obj[f] ELSE Undefined

(* paystackCustomer?.f, paystackCustomer being data.customer *)
GatewayField(data, f) ==
  IF Has(data, "customer") THEN Get(data.customer, f) ELSE Undefined

(* paystackCustomer?.metadata?.f *)
GatewayMeta(data, f) ==
  IF Has(data, "customer") /\ Has(data.customer, "metadata")
  THEN Get(data.customer.metadata, f) ELSE Undefined

BuildCustomer(data) ==
  LET metadata == data.metadata
      customerFromMetadata == IF Has(metadata, "customer") THEN metadata.customer
                              ELSE EmptyObject
  IN [fullName |->
        Or(Or(Or(Get(customerFromMetadata, "fullName"),
                 Get(metadata, "fullName")),
              GatewayField(data, "first_name") \o " " \o GatewayField(data, "last_name")),
           "Customer"),
      email |->
        Or(Or(Or(Get(customerFromMetadata, "email"),
                 Get(metadata, "email")),
              GatewayField(data, "email")),
           ""),
      address |->
        Or(Or(Or(Get(customerFromMetadata, "address"),
                 Get(metadata, "address")),
              GatewayMeta(data, "address")),
           "Not provided")]

CustomerMetadatas ==
  { [userId |-> "u1"],
    [userId |-> "u1", customer |-> [email |-> "ama@x.gh"]],
    [userId |-> "u1", customer |-> [fullName |-> "Ama", email |-> "ama@x.gh",
                                    address |-> "12 Ring Rd"]],
    [userId |-> "u1", customer |-> [fullName |-> "Ama", email |-> "ama@x.gh",
                                    address |-> ""]],
    [userId |-> "u1", fullName |-> "Kofi", email |-> "kofi@x.gh",
     address |-> "Flat 3"],
    [userId |-> "u1", fullName |-> "Kofi"],
    [userId |-> "u1", customer |-> [fullName |-> "Ama", address |-> "12 Ring Rd"],
     fullName |-> "Kofi", email |-> "kofi@x.gh", address |-> "Flat 3"],
    [userId |-> "u1", customer |-> [email |-> "ama@x.gh"], address |-> "Flat 3"] }

GatewayCustomers ==
  { [email |-> "pay@x.gh"],
    [first_name |-> Null, last_name |-> Null, email |-> "pay@x.gh"],
    [first_name |-> "Yaa", last_name |-> "Osei", email |-> "pay@x.gh"],
    [first_name |-> "Yaa", last_name |-> "Osei", email |-> "pay@x.gh",
     metadata |-> [address |-> "PO Box 1"]],
    [email |-> "pay@x.gh", metadata |-> [address |-> "PO Box 1"]],
    [first_name |-> "", last_name |-> "", metadata |-> [address |-> ""]] }

ChargeDatas ==
  {[metadata |-> md] : md \in CustomerMetadatas}
    \cup {[metadata |-> md, customer |-> g] :
            md \in CustomerMetadatas, g \in GatewayCustomers}

BuildCustomerStep ==
  /\ norm.pc = "received"
  /\ norm' = [pc |-> "built", data |-> norm.data,
              customer |-> BuildCustomer(norm.data)]
  /\ UNCHANGED <<orders, carts, counter, mail, now, calls, adminEmail, paid, smtp>>

InitCustomer ==
  /\ orders = {}
  /\ carts = InitCarts
  /\ counter = 0
  /\ mail = {}
  /\ now = 0
  /\ calls = [c \in Calls |-> IdleCall]
  /\ adminEmail = FALSE
  /\ paid = {}
  /\ norm \in {[pc |-> "received", data |-> d] : d \in ChargeDatas}
  /\ smtp = NoSmtp

NextCustomer == BuildCustomerStep

SpecCustomer == InitCustomer /\ [][NextCustomer]_vars

(***************************************************************************)
(* SpecOrderCtl : webhookPayment of src/src/controllers/orderController.js  *)
(*                (lines 224-297): no signature check, items under          *)
(*                metadata.cart, find-then-create, and both notification    *)
(*                sends awaited inside the handler's single try block.      *)
(***************************************************************************)
CtlItem(item) ==
  [drinkId |-> item.drinkId,
   image |-> Or(Or(Get(item, "image"), Get(item, "imageUrl")), ""),
   name |-> item.name,
   pack |-> Or(Get(item, "pack"), Null),
   price |-> item.price,
   quantity |-> item.quantity]

CtlWebhookEntry(body) ==
  IF body.event # "charge.success"
  THEN [pc |-> "done", resp |-> Resp(200, "Ignored")]
  ELSE LET md == body.metadata IN
    IF ~Has(md, "cart") \/ ~Has(md, "userId")
    THEN [pc |-> "done", resp |-> Resp(400, "Missing metadata")]
    ELSE [pc |-> "ctlFind", resp |-> NoResp]

CtlReceive(c) ==
  /\ Arrives(c)
  /\ \E r \in OrderWebhookRequests :
       LET e == CtlWebhookEntry(JSONparse(r.raw))
       IN calls' = [calls EXCEPT ![c].pc = e.pc, ![c].req = r, ![c].resp = e.resp]
  /\ UNCHANGED <<orders, carts, counter, mail, now, adminEmail, paid, norm, smtp>>

(* let order = await Order.findOne(...); an existing Order skips the whole
   if (!order) block, the cart deletion included. *)
CtlFind(c) ==
  /\ calls[c].pc = "ctlFind"
  /\ calls' = IF OrdersFor(Payload(c).reference) # {}
              THEN Finish(c, 200, "OK")
              ELSE [calls EXCEPT ![c].pc = "ctlCreate"]
  /\ UNCHANGED <<orders, carts, counter, mail, now, adminEmail, paid, norm, smtp>>

CtlCreatedOrder(c) ==
  LET p == Payload(c)
      md == p.metadata
  IN [id |-> Cardinality(orders) + 1,
      userId |-> md.userId,
      customer |-> IF Has(md, "customer") THEN md.customer ELSE EmptyObject,
      items |-> [i \in 1..Len(md.cart) |-> CtlItem(md.cart[i])],
      totalAmount |-> p.amount \div MinorPerUnit,
      paystackReference |-> p.reference,
      paymentStatus |-> "paid",
      orderStatus |-> "confirmed",
      createdAt |-> now]

CtlSchemaValid(doc) ==
  /\ Truthy(Get(doc.customer, "fullName"))
  /\ Truthy(Get(doc.customer, "email"))
  /\ Len(doc.items) > 0
  /\ \A i \in 1..Len(doc.items) : doc.items[i].price >= 0 /\ doc.items[i].quantity >= 1
  /\ doc.totalAmount >= 0

(* toEmail = (customer && customer.email) || (metadata && metadata.email) || null *)
CtlToEmail(md) ==
  Or(Or(IF Has(md, "customer") THEN Get(md.customer, "email") ELSE Undefined,
        Get(md, "email")),
     Null)

CtlAfterCustomer == IF adminEmail THEN "ctlAdminMail" ELSE "ctlClearCart"

CtlCreate(c) ==
  /\ calls[c].pc = "ctlCreate"
  /\ LET doc == CtlCreatedOrder(c)
     IN IF ~CtlSchemaValid(doc) \/ OrdersFor(doc.paystackReference) # {}
        THEN /\ orders' = orders
             /\ calls' = Finish(c, 500, "Server error")
        ELSE /\ orders' = orders \cup {doc}
             /\ calls' = [calls EXCEPT ![c].pc = IF Truthy(CtlToEmail(Payload(c).metadata))
                                                  THEN "ctlCustomerMail"
                                                  ELSE CtlAfterCustomer,
                                       ![c].inserted = TRUE, ![c].isNew = TRUE]
  /\ UNCHANGED <<carts, counter, mail, now, adminEmail, paid, norm, smtp>>

CtlCreateFails(c) ==
  /\ calls[c].pc = "ctlCreate"
  /\ calls' = [Finish(c, 500, "Server error") EXCEPT ![c].storeFailed = TRUE]
  /\ UNCHANGED <<orders, carts, counter, mail, now, adminEmail, paid, norm, smtp>>

(* await sendEmail(...) with no try/catch of its own: sendEmail rethrows a
   failed send, and the handler's catch answers 500. *)
CtlCustomerEmail(c) ==
  /\ calls[c].pc = "ctlCustomerMail"
  /\ \E ok \in BOOLEAN :
       /\ mail' = mail \cup {Mail(c, "customer", Payload(c).reference, ok)}
       /\ calls' = IF ok THEN [calls EXCEPT ![c].pc = CtlAfterCustomer]
                   ELSE Finish(c, 500, "Server error")
  /\ UNCHANGED <<orders, carts, counter, now, adminEmail, paid, norm, smtp>>

CtlAdminEmail(c) ==
  /\ calls[c].pc = "ctlAdminMail"
  /\ \E ok \in BOOLEAN :
       /\ mail' = mail \cup {Mail(c, "admin", Payload(c).reference, ok)}
       /\ calls' = IF ok THEN [calls EXCEPT ![c].pc = "ctlClearCart"]
                   ELSE Finish(c, 500, "Server error")
  /\ UNCHANGED <<orders, carts, counter, now, adminEmail, paid, norm, smtp>>

(* await Cart.deleteMany({ userId }), then 200 "OK" *)
CtlClearCart(c) ==
  /\ calls[c].pc = "ctlClearCart"
  /\ \E ok \in BOOLEAN :
       /\ carts' = IF ok THEN CartDeleteMany(Payload(c).metadata.userId) ELSE carts
       /\ calls' = IF ok THEN [Finish(c, 200, "OK") EXCEPT ![c].cleared = TRUE]
                   ELSE [Finish(c, 500, "Server error") EXCEPT ![c].clearFailed = TRUE]
  /\ UNCHANGED <<orders, counter, mail, now, adminEmail, paid, norm, smtp>>

NextOrderCtl ==
  \/ \E c \in Calls : CtlReceive(c)
  \/ \E c \in Calls : CtlFind(c)
  \/ \E c \in Calls : CtlCreate(c)
  \/ \E c \in Calls : CtlCreateFails(c)
  \/ \E c \in Calls : CtlCustomerEmail(c)
  \/ \E c \in Calls : CtlAdminEmail(c)
  \/ \E c \in Calls : CtlClearCart(c)

SpecOrderCtl == InitOrder /\ [][NextOrderCtl]_vars

(***************************************************************************)
(* SpecMail : sendEmail and trySendMail of src/unnamed/part_004 (lines      *)
(*            103-188): the retry loop on the primary transport, the        *)
(*            fallback transport and the result reported to the caller.     *)
(*            SpecMailFair adds that every pending await settles: each      *)
(*            transport attempt ends in success or an error (the transports *)
(*            are created with connection, greeting and socket timeouts)    *)
(*            and the backoff timer fires.                                  *)
(***************************************************************************)
MaxRetries == 2

DefaultRetries == 1

BackoffMs == 800

transientCodes == {"ETIMEDOUT", "ECONNRESET", "EAI_AGAIN", "ENOTFOUND", "ECONNREFUSED"}

(* What one sendMail call can end in: success, or an error with one of the
   transient codes, with another code, or with no code at all. *)
SendOutcomes == {"ok"} \cup transientCodes \cup {"EAUTH", Undefined}

(* Every failure taken for transient. *)
isTransientAlways(code) == TRUE

(* transientCodes.includes(err && err.code) *)
isTransient(code) == code \in transientCodes

(* One attempt too many. *)
WhileConditionOffByOne(attempt, retries) == attempt <= retries + 1

(* while (attempt <= retries) *)
WhileCondition(attempt, retries) == attempt <= retries

(* The fallback tried whether or not it is configured. *)
UseFallbackAlways(fallback, fallbackHost) == TRUE

(* if (fallback && fallbackHost) *)
UseFallback(fallback, fallbackHost) == fallback /\ fallbackHost

(* A fallback send whose success is not returned. *)
FallbackNextThrowing(outcome) == "thrown"

(* return info, or fall through to throw lastError *)
FallbackNext(outcome) == IF outcome = "ok" THEN "returned" ELSE "thrown"

(* The Order the notification is about, persisted before the send. *)
MailOrder ==
  LET n == normalizeItems(<<ItOrange, ItMango>>)
  IN [id |-> 1, userId |-> "u1", customer |-> Ama, items |-> n.items,
      totalAmount |-> n.total, totalItems |-> n.totalQty,
      paystackReference |-> "R1", paymentStatus |-> "paid",
      orderStatus |-> "confirmed", orderNumber |-> <<>>, createdAt |-> 0]

(* sendEmail calls trySendMail with retries 1 and the fallback enabled;
   trySendMail itself takes any retries and either fallback option. *)
SendCalls ==
  {[caller |-> "sendEmail", configured |-> k, retries |-> DefaultRetries,
    fallback |-> TRUE, fallbackHost |-> h] : k \in BOOLEAN, h \in BOOLEAN}
  \cup
  {[caller |-> "trySendMail", configured |-> TRUE, retries |-> r,
    fallback |-> f, fallbackHost |-> h] :
     r \in 0..MaxRetries, f \in BOOLEAN, h \in BOOLEAN}

Attempt(transport, outcome) == [transport |-> transport, outcome |-> outcome]

(* sendEmail: the configuration check, then trySendMail *)
SendEmailStart ==
  /\ smtp.pc = "start"
  /\ smtp' = [smtp EXCEPT !.pc = IF smtp.call.configured THEN "loop" ELSE "thrown"]
  /\ UNCHANGED <<orders, carts, counter, mail, now, calls, adminEmail, paid, norm>>

(* One pass of the loop body: attempt++, await transporter.sendMail, and the
   catch block up to the backoff. *)
PrimaryAttempt ==
  /\ smtp.pc = "loop"
  /\ WhileCondition(smtp.attempt, smtp.call.retries)
  /\ \E outcome \in SendOutcomes :
       LET attempt == smtp.attempt + 1
       IN smtp' = [smtp EXCEPT
                     !.attempt = attempt,
                     !.log = Append(@, Attempt("primary", outcome)),
                     !.lastError = IF outcome = "ok" THEN @ ELSE outcome,
                     !.pc = IF outcome = "ok" THEN "returned"
                            ELSE IF ~isTransient(outcome) THEN "afterLoop"
                            ELSE IF attempt <= smtp.call.retries THEN "backoff"
                            ELSE "loop"]
  /\ UNCHANGED <<orders, carts, counter, mail, now, calls, adminEmail, paid, norm>>

(* await new Promise((r) => setTimeout(r, 800 * attempt)) *)
Backoff ==
  /\ smtp.pc = "backoff"
  /\ now' = now + BackoffMs * smtp.attempt
  /\ smtp' = [smtp EXCEPT !.pc = "loop"]
  /\ UNCHANGED <<orders, carts, counter, mail, calls, adminEmail, paid, norm>>

(* The loop condition fails. *)
LoopExit ==
  /\ smtp.pc = "loop"
  /\ ~WhileCondition(smtp.attempt, smtp.call.retries)
  /\ smtp' = [smtp EXCEPT !.pc = "afterLoop"]
  /\ UNCHANGED <<orders, carts, counter, mail, now, calls, adminEmail, paid, norm>>

(* After the loop: the fallback transport if enabled and configured, else
   throw lastError. *)
AfterLoop ==
  /\ smtp.pc = "afterLoop"
  /\ smtp' = [smtp EXCEPT !.pc = IF UseFallback(smtp.call.fallback, smtp.call.fallbackHost)
                                 THEN "fallback" ELSE "thrown"]
  /\ UNCHANGED <<orders, carts, counter, mail, now, calls, adminEmail, paid, norm>>

(* await fallbackTransporter.sendMail(mailOptions) *)
FallbackAttempt ==
  /\ smtp.pc = "fallback"
  /\ \E outcome \in SendOutcomes :
       smtp' = [smtp EXCEPT
                  !.log = Append(@, Attempt("fallback", outcome)),
                  !.lastError = IF outcome = "ok" THEN @ ELSE outcome,
                  !.pc = FallbackNext(outcome)]
  /\ UNCHANGED <<orders, carts, counter, mail, now, calls, adminEmail, paid, norm>>

InitMail ==
  /\ orders = {MailOrder}
  /\ carts = InitCarts
  /\ counter = 0
  /\ mail = {}
  /\ now = 0
  /\ calls = [c \in Calls |-> IdleCall]
  /\ adminEmail = FALSE
  /\ paid = {}
  /\ norm = NoNorm
  /\ smtp \in {[pc |-> "start", call |-> k, attempt |-> 0, log |-> <<>>,
                lastError |-> Null] : k \in SendCalls}

NextMail ==
  \/ SendEmailStart
  \/ PrimaryAttempt
  \/ Backoff
  \/ LoopExit
  \/ AfterLoop
  \/ FallbackAttempt

SpecMail == InitMail /\ [][NextMail]_vars

SpecMailFair == SpecMail /\ WF_vars(NextMail)

(***************************************************************************)
(* SpecVerify : verifyPayment of src/unnamed/part_012 (lines 1775-1873)     *)
(*              running beside webhookPayment of the same controller on one *)
(*              store: Order.findOne, the gateway's verify endpoint, then   *)
(*              Order.create.                                               *)
(***************************************************************************)
Redirect == Resp(302, "/orders")

(* GET /verify/:reference for a transaction of the gateway; the body stands
   for what the gateway's verify endpoint answers for the reference. *)
VerifyRequests == {[raw |-> JSONstringify(p), header |-> NoHeader] : p \in paid}

VerReceive(c) ==
  /\ Arrives(c)
  /\ \E r \in VerifyRequests :
       calls' = [calls EXCEPT ![c].pc = "verFind", ![c].req = r, ![c].verify = TRUE]
  /\ UNCHANGED <<orders, carts, counter, mail, now, adminEmail, paid, norm, smtp>>

(* The lookup finding nothing. *)
VerifyLookupNothing(ref) == {}

(* Order.findOne({ paystackReference: reference }) *)
VerifyLookup(ref) == OrdersFor(ref)

VerFind(c) ==
  /\ calls[c].pc = "verFind"
  /\ calls' = IF VerifyLookup(Payload(c).reference) # {}
              THEN [calls EXCEPT ![c].pc = "done", ![c].resp = Redirect]
              ELSE [calls EXCEPT ![c].pc = "verQuery"]
  /\ UNCHANGED <<orders, carts, counter, mail, now, adminEmail, paid, norm, smtp>>

(* The handler without its check of data.status. *)
VerifyEntryIgnoringStatus(data) ==
  IF ~Has(data.metadata, "items") \/ Len(data.metadata.items) = 0
  THEN [pc |-> "done", resp |-> Resp(400, "Invalid order data")]
  ELSE [pc |-> "verCreate", resp |-> NoResp]

(* From the gateway's answer to Order.create: data.status is "success" for
   a transaction that was charged. *)
VerifyEntry(data) ==
  IF data.event # "charge.success"
  THEN [pc |-> "done", resp |-> Resp(400, "Payment was not successful")]
  ELSE IF ~Has(data.metadata, "items") \/ Len(data.metadata.items) = 0
  THEN [pc |-> "done", resp |-> Resp(400, "Invalid order data")]
  ELSE [pc |-> "verCreate", resp |-> NoResp]

VerQuery(c) ==
  /\ calls[c].pc = "verQuery"
  /\ LET e == VerifyEntry(Payload(c))
     IN calls' = [calls EXCEPT ![c].pc = e.pc, ![c].resp = e.resp]
  /\ UNCHANGED <<orders, carts, counter, mail, now, adminEmail, paid, norm, smtp>>

(* axios.get rejects: the catch answers 500. *)
VerQueryFails(c) ==
  /\ calls[c].pc = "verQuery"
  /\ calls' = [Finish(c, 500, "Payment verification failed")
                 EXCEPT ![c].gatewayFailed = TRUE]
  /\ UNCHANGED <<orders, carts, counter, mail, now, adminEmail, paid, norm, smtp>>

(* The validators of the Order schema on the document verifyPayment builds *)
VerifyDocValid(data) ==
  /\ Has(data.metadata, "customer")
  /\ Truthy(Get(data.metadata.customer, "fullName"))
  /\ Truthy(Get(data.metadata.customer, "email"))
  /\ Len(normalizeItems(data.metadata.items).items) > 0

(* Order.create under the unique index, then the detached notification
   sends and the branch to the cart deletion. *)
VerCreate(c) ==
  /\ calls[c].pc = "verCreate"
  /\ LET p == Payload(c)
     IN IF ~VerifyDocValid(p) \/ OrdersFor(p.reference) # {}
        THEN /\ orders' = orders
             /\ mail' = mail
             /\ calls' = Finish(c, 500, "Payment verification failed")
        ELSE /\ orders' = orders \cup {InsertedOrder(p)}
             /\ \E okC \in BOOLEAN :
                  \E okA \in IF adminEmail THEN BOOLEAN ELSE {FALSE} :
                    mail' = mail
                      \cup {Mail(c, "customer", p.reference, okC)}
                      \cup (IF adminEmail
                            THEN {Mail(c, "admin", p.reference, okA)} ELSE {})
             /\ calls' = IF Has(p.metadata, "userId")
                         THEN [calls EXCEPT ![c].pc = "verClearCart",
                                            ![c].inserted = TRUE, ![c].isNew = TRUE]
                         ELSE [calls EXCEPT ![c].pc = "done", ![c].resp = Redirect,
                                            ![c].inserted = TRUE, ![c].isNew = TRUE]
  /\ UNCHANGED <<carts, counter, now, adminEmail, paid, norm, smtp>>

VerCreateFails(c) ==
  /\ calls[c].pc = "verCreate"
  /\ calls' = [Finish(c, 500, "Payment verification failed")
                 EXCEPT ![c].storeFailed = TRUE]
  /\ UNCHANGED <<orders, carts, counter, mail, now, adminEmail, paid, norm, smtp>>

(* await Cart.deleteMany({ userId }) inside try/catch, then the redirect *)
VerClearCart(c) ==
  /\ calls[c].pc = "verClearCart"
  /\ \E ok \in BOOLEAN :
       /\ carts' = IF ok THEN CartDeleteMany(Payload(c).metadata.userId) ELSE carts
       /\ calls' = [calls EXCEPT ![c].pc = "done", ![c].resp = Redirect,
                                 ![c].cleared = ok, ![c].clearFailed = ~ok]
  /\ UNCHANGED <<orders, counter, mail, now, adminEmail, paid, norm, smtp>>

NextVerify ==
  \/ \E c \in Calls : Receive(c)
  \/ \E c \in Calls : SendMismatchAlert(c)
  \/ \E c \in Calls : Upsert(c)
  \/ \E c \in Calls : UpsertFails(c)
  \/ \E c \in Calls : AfterUpsert(c)
  \/ \E c \in Calls : ClearCart(c)
  \/ \E c \in Calls : VerReceive(c)
  \/ \E c \in Calls : VerFind(c)
  \/ \E c \in Calls : VerQuery(c)
  \/ \E c \in Calls : VerQueryFails(c)
  \/ \E c \in Calls : VerCreate(c)
  \/ \E c \in Calls : VerCreateFails(c)
  \/ \E c \in Calls : VerClearCart(c)
  \/ Tick

SpecVerify == Init /\ [][NextVerify]_vars

(***************************************************************************)
(* SpecCheckout : createOrderFromCheckout of src/unnamed/part_014 (lines    *)
(*                143-279) running beside webhookPayment of the same file.  *)
(***************************************************************************)
(* name and image of the products of the catalog *)
Product ==
  [d1 |-> [name |-> "Orange", image |-> "o.png"],
   d2 |-> [name |-> "Mango", image |-> "m.png"]]

(* The users a checkout request is authenticated as: one with cart
   entries, one without. *)
CheckoutUsers == {"u1", "u3"}

(* req.body of POST /checkout for a reference; "" is a missing reference *)
CheckoutBodies(ref) ==
  { [reference |-> ref, customer |-> Ama],
    [reference |-> ref, customer |-> Ama, totalAmount |-> 5],
    [reference |-> ref, customer |-> Ama, items |-> <<ItUnderquoted>>,
     totalAmount |-> 2],
    [reference |-> ref, customer |-> AmaNoEmail, items |-> <<ItOrange>>],
    [reference |-> ref, customer |-> Ama, items |-> <<ItNoImage>>],
    [reference |-> "", customer |-> Ama] }

CheckoutRequests ==
  {[raw |-> JSONstringify(b), header |-> NoHeader, user |-> u] :
     b \in UNION {CheckoutBodies(p.reference) : p \in paid},
     u \in CheckoutUsers}

RECURSIVE SeqOfSet(_)
SeqOfSet(S) ==
  IF S = {} THEN <<>>
  ELSE LET x == CHOOSE y \in S : TRUE IN <<x>> \o SeqOfSet(S \ {x})

(* Cart.find({ userId }).populate("drinkId") *)
CartFind(userId) == SeqOfSet({e \in carts : e.userId = userId})

(* The order item built from a cart entry and its product *)
CartItem(ci) ==
  LET selectedPack == SelectedPack(ci.drinkId, ci.pack)
  IN [drinkId |-> ci.drinkId,
      name |-> Product[ci.drinkId].name,
      image |-> Product[ci.drinkId].image,
      pack |-> selectedPack.pack,
      price |-> selectedPack.price,
      quantity |-> ci.quantity]

LineTotals(items) == [i \in 1..Len(items) |-> items[i].price * items[i].quantity]

(* typeof bodyTotal === "number" ? bodyTotal : 0 *)
BodyTotal(body) == IF Has(body, "totalAmount") THEN body.totalAmount ELSE 0

(* A body item with its quantity defaulted to 1 *)
ChkItem(it) ==
  [it EXCEPT !.quantity = IF it.quantity # 0 THEN it.quantity ELSE 1]

(* The checks on items and total before the duplicate lookup *)
ChkAfterItems(items, totalAmount) ==
  IF Len(items) = 0
  THEN [pc |-> "done", resp |-> Resp(400, "No items to create order")]
  ELSE IF totalAmount <= 0
  THEN [pc |-> "done", resp |-> Resp(400, "Invalid total amount")]
  ELSE [pc |-> "chkFind", resp |-> NoResp]

(* The handler up to its first store access.  Completing an item from the
   catalog names Drink, which the module does not import: the lookup throws
   and the catch answers 500. *)
CheckoutEntry(body) ==
  IF ~Truthy(body.reference)
  THEN [pc |-> "done", resp |-> Resp(400, "Missing payment reference"),
        items |-> <<>>, total |-> 0]
  ELSE IF ~(Has(body, "items") /\ Len(body.items) > 0)
  THEN [pc |-> "chkCart", resp |-> NoResp, items |-> <<>>, total |-> BodyTotal(body)]
  ELSE IF \E i \in 1..Len(body.items) : ~Has(body.items[i], "drinkId")
  THEN [pc |-> "done", resp |-> Resp(400, "Item missing drinkId"),
        items |-> <<>>, total |-> 0]
  ELSE IF \E i \in 1..Len(body.items) : NeedsLookup(body.items[i])
  THEN [pc |-> "done", resp |-> Resp(500, "Failed to create order"),
        items |-> <<>>, total |-> 0]
  ELSE LET items == [i \in 1..Len(body.items) |-> ChkItem(body.items[i])]
           computedTotal == SumSeq(LineTotals(items))
           totalAmount == IF BodyTotal(body) # 0 THEN BodyTotal(body)
                          ELSE computedTotal
           e == ChkAfterItems(items, totalAmount)
       IN [pc |-> e.pc, resp |-> e.resp, items |-> items, total |-> totalAmount]

ChkReceive(c) ==
  /\ Arrives(c)
  /\ \E r \in CheckoutRequests :
       LET e == CheckoutEntry(JSONparse(r.raw))
       IN calls' = [calls EXCEPT ![c].pc = e.pc, ![c].req = r, ![c].resp = e.resp,
                                 ![c].items = e.items, ![c].total = e.total,
                                 ![c].checkout = TRUE]
  /\ UNCHANGED <<orders, carts, counter, mail, now, adminEmail, paid, norm, smtp>>

(* Build from the server-side cart: totalAmount starts at the body's total
   and every cart line is added to it. *)
ChkCart(c) ==
  /\ calls[c].pc = "chkCart"
  /\ LET cartItems == CartFind(calls[c].req.user)
         items == [i \in 1..Len(cartItems) |-> CartItem(cartItems[i])]
         totalAmount == calls[c].total + SumSeq(LineTotals(items))
         e == ChkAfterItems(items, totalAmount)
     IN calls' = IF Len(cartItems) = 0
                 THEN Finish(c, 404, "Cart is empty")
                 ELSE [calls EXCEPT ![c].pc = e.pc, ![c].resp = e.resp,
                                    ![c].items = items, ![c].total = totalAmount]
  /\ UNCHANGED <<orders, carts, counter, mail, now, adminEmail, paid, norm, smtp>>

(* let existing = await Order.findOne({ paystackReference: reference }) *)
ChkFind(c) ==
  /\ calls[c].pc = "chkFind"
  /\ calls' = IF OrdersFor(Payload(c).reference) # {}
              THEN Finish(c, 200, "Order already exists")
              ELSE [calls EXCEPT ![c].pc = "chkNumber"]
  /\ UNCHANGED <<orders, carts, counter, mail, now, adminEmail, paid, norm, smtp>>

(* const orderNumber = await getNextOrderNumber() *)
ChkNumber(c) ==
  /\ calls[c].pc = "chkNumber"
  /\ counter' = counter + 1
  /\ calls' = [calls EXCEPT ![c].pc = "chkCreate", ![c].num = OrderNumberOf(counter + 1)]
  /\ UNCHANGED <<orders, carts, mail, now, adminEmail, paid, norm, smtp>>

ChkCreatedOrder(c) ==
  LET body == Payload(c)
  IN [id |-> Cardinality(orders) + 1,
      userId |-> calls[c].req.user,
      customer |-> sanitizeCustomer(IF Has(body, "customer") THEN body.customer
                                    ELSE EmptyObject),
      items |-> calls[c].items,
      totalAmount |-> calls[c].total,
      paystackReference |-> body.reference,
      paymentStatus |-> "pending",
      orderStatus |-> "confirmed",
      orderNumber |-> calls[c].num,
      createdAt |-> now]

ChkAfterCreate(doc) ==
  IF doc.customer.email # "" THEN "chkCustomerMail"
  ELSE IF adminEmail THEN "chkAdminMail" ELSE "chkClearCart"

(* Order.create: schema validation, then the insert under the unique index
   on paystackReference; either failure throws and the catch answers 500. *)
ChkCreate(c) ==
  /\ calls[c].pc = "chkCreate"
  /\ LET doc == ChkCreatedOrder(c)
     IN IF ~SchemaValid(doc) \/ OrdersFor(doc.paystackReference) # {}
        THEN /\ orders' = orders
             /\ calls' = Finish(c, 500, "Failed to create order")
        ELSE /\ orders' = orders \cup {doc}
             /\ calls' = [calls EXCEPT ![c].pc = ChkAfterCreate(doc),
                                       ![c].inserted = TRUE, ![c].isNew = TRUE]
  /\ UNCHANGED <<carts, counter, mail, now, adminEmail, paid, norm, smtp>>

ChkCreateFails(c) ==
  /\ calls[c].pc = "chkCreate"
  /\ calls' = [Finish(c, 500, "Failed to create order") EXCEPT ![c].storeFailed = TRUE]
  /\ UNCHANGED <<orders, carts, counter, mail, now, adminEmail, paid, norm, smtp>>

(* if (customer?.email) await sendEmail(...) inside try/catch *)
ChkCustomerEmail(c) ==
  /\ calls[c].pc = "chkCustomerMail"
  /\ \E ok \in BOOLEAN :
       mail' = mail \cup {Mail(c, "customer", Payload(c).reference, ok)}
  /\ calls' = [calls EXCEPT ![c].pc = IF adminEmail THEN "chkAdminMail"
                                      ELSE "chkClearCart"]
  /\ UNCHANGED <<orders, carts, counter, now, adminEmail, paid, norm, smtp>>

(* if (process.env.ADMIN_EMAIL) await sendEmail(...) inside try/catch *)
ChkAdminEmail(c) ==
  /\ calls[c].pc = "chkAdminMail"
  /\ \E ok \in BOOLEAN :
       mail' = mail \cup {Mail(c, "admin", Payload(c).reference, ok)}
  /\ calls' = [calls EXCEPT ![c].pc = "chkClearCart"]
  /\ UNCHANGED <<orders, carts, counter, now, adminEmail, paid, norm, smtp>>

(* await Cart.deleteMany({ userId }) inside try/catch, then 201 *)
ChkClearCart(c) ==
  /\ calls[c].pc = "chkClearCart"
  /\ \E ok \in BOOLEAN :
       /\ carts' = IF ok THEN CartDeleteMany(calls[c].req.user) ELSE carts
       /\ calls' = [Finish(c, 201, "created")
                      EXCEPT ![c].cleared = ok, ![c].clearFailed = ~ok]
  /\ UNCHANGED <<orders, counter, mail, now, adminEmail, paid, norm, smtp>>

NextCheckout ==
  \/ NextOrder
  \/ \E c \in Calls : ChkReceive(c)
  \/ \E c \in Calls : ChkCart(c)
  \/ \E c \in Calls : ChkFind(c)
  \/ \E c \in Calls : ChkNumber(c)
  \/ \E c \in Calls : ChkCreate(c)
  \/ \E c \in Calls : ChkCreateFails(c)
  \/ \E c \in Calls : ChkCustomerEmail(c)
  \/ \E c \in Calls : ChkAdminEmail(c)
  \/ \E c \in Calls : ChkClearCart(c)

SpecCheckout == InitOrder /\ [][NextCheckout]_vars

(***************************************************************************)
(* SpecCheckoutCtl : createOrderFromCheckout of                             *)
(*                   src/src/controllers/orderController.js (lines 143-220) *)
(*                   running beside webhookPayment of the same file.        *)
(***************************************************************************)
CtlChkEntry(body) ==
  IF ~Truthy(body.reference)
  THEN [pc |-> "done", resp |-> Resp(400, "Missing payment reference")]
  ELSE [pc |-> "ctlChkCart", resp |-> NoResp]

CtlChkReceive(c) ==
  /\ Arrives(c)
  /\ \E r \in CheckoutRequests :
       LET e == CtlChkEntry(JSONparse(r.raw))
       IN calls' = [calls EXCEPT ![c].pc = e.pc, ![c].req = r, ![c].resp = e.resp,
                                 ![c].checkout = TRUE]
  /\ UNCHANGED <<orders, carts, counter, mail, now, adminEmail, paid, norm, smtp>>

(* Cart.find({ userId }).populate("drinkId"), then items and total built
   from the cart entries, the total starting at 0 *)
CtlChkCart(c) ==
  /\ calls[c].pc = "ctlChkCart"
  /\ LET cartItems == CartFind(calls[c].req.user)
         items == [i \in 1..Len(cartItems) |-> CartItem(cartItems[i])]
     IN calls' = IF Len(cartItems) = 0
                 THEN Finish(c, 404, "Cart is empty")
                 ELSE [calls EXCEPT ![c].pc = "ctlChkFind", ![c].items = items,
                                    ![c].total = SumSeq(LineTotals(items))]
  /\ UNCHANGED <<orders, carts, counter, mail, now, adminEmail, paid, norm, smtp>>

(* let order = await Order.findOne({ paystackReference: reference }) *)
CtlChkFind(c) ==
  /\ calls[c].pc = "ctlChkFind"
  /\ calls' = [calls EXCEPT ![c].pc = IF OrdersFor(Payload(c).reference) # {}
                                      THEN "ctlChkClearCart" ELSE "ctlChkCreate"]
  /\ UNCHANGED <<orders, carts, counter, mail, now, adminEmail, paid, norm, smtp>>

CtlChkCreatedOrder(c) ==
  LET body == Payload(c)
  IN [id |-> Cardinality(orders) + 1,
      userId |-> calls[c].req.user,
      customer |-> IF Has(body, "customer") THEN body.customer ELSE EmptyObject,
      items |-> calls[c].items,
      totalAmount |-> calls[c].total,
      paystackReference |-> body.reference,
      paymentStatus |-> "paid",
      orderStatus |-> "confirmed",
      createdAt |-> now]

CtlChkAfterCustomer == IF adminEmail THEN "ctlChkAdminMail" ELSE "ctlChkClearCart"

CtlChkCreate(c) ==
  /\ calls[c].pc = "ctlChkCreate"
  /\ LET doc == CtlChkCreatedOrder(c)
     IN IF ~CtlSchemaValid(doc) \/ OrdersFor(doc.paystackReference) # {}
        THEN /\ orders' = orders
             /\ calls' = Finish(c, 500, "Failed to create order")
        ELSE /\ orders' = orders \cup {doc}
             /\ calls' = [calls EXCEPT ![c].pc = IF Truthy(Get(doc.customer, "email"))
                                                  THEN "ctlChkCustomerMail"
                                                  ELSE CtlChkAfterCustomer,
                                       ![c].inserted = TRUE, ![c].isNew = TRUE]
  /\ UNCHANGED <<carts, counter, mail, now, adminEmail, paid, norm, smtp>>

CtlChkCreateFails(c) ==
  /\ calls[c].pc = "ctlChkCreate"
  /\ calls' = [Finish(c, 500, "Failed to create order") EXCEPT ![c].storeFailed = TRUE]
  /\ UNCHANGED <<orders, carts, counter, mail, now, adminEmail, paid, norm, smtp>>

(* await sendEmail(...) with no try/catch of its own *)
CtlChkCustomerEmail(c) ==
  /\ calls[c].pc = "ctlChkCustomerMail"
  /\ \E ok \in BOOLEAN :
       /\ mail' = mail \cup {Mail(c, "customer", Payload(c).reference, ok)}
       /\ calls' = IF ok THEN [calls EXCEPT ![c].pc = CtlChkAfterCustomer]
                   ELSE Finish(c, 500, "Failed to create order")
  /\ UNCHANGED <<orders, carts, counter, now, adminEmail, paid, norm, smtp>>

CtlChkAdminEmail(c) ==
  /\ calls[c].pc = "ctlChkAdminMail"
  /\ \E ok \in BOOLEAN :
       /\ mail' = mail \cup {Mail(c, "admin", Payload(c).reference, ok)}
       /\ calls' = IF ok THEN [calls EXCEPT ![c].pc = "ctlChkClearCart"]
                   ELSE Finish(c, 500, "Failed to create order")
  /\ UNCHANGED <<orders, carts, counter, now, adminEmail, paid, norm, smtp>>

(* await Cart.deleteMany({ userId }), then 201 *)
CtlChkClearCart(c) ==
  /\ calls[c].pc = "ctlChkClearCart"
  /\ \E ok \in BOOLEAN :
       /\ carts' = IF ok THEN CartDeleteMany(calls[c].req.user) ELSE carts
       /\ calls' = IF ok THEN [Finish(c, 201, "created") EXCEPT ![c].cleared = TRUE]
                   ELSE [Finish(c, 500, "Failed to create order")
                           EXCEPT ![c].clearFailed = TRUE]
  /\ UNCHANGED <<orders, counter, mail, now, adminEmail, paid, norm, smtp>>

NextCheckoutCtl ==
  \/ NextOrderCtl
  \/ \E c \in Calls : CtlChkReceive(c)
  \/ \E c \in Calls : CtlChkCart(c)
  \/ \E c \in Calls : CtlChkFind(c)
  \/ \E c \in Calls : CtlChkCreate(c)
  \/ \E c \in Calls : CtlChkCreateFails(c)
  \/ \E c \in Calls : CtlChkCustomerEmail(c)
  \/ \E c \in Calls : CtlChkAdminEmail(c)
  \/ \E c \in Calls : CtlChkClearCart(c)

SpecCheckoutCtl == InitOrder /\ [][NextCheckoutCtl]_vars

(***************************************************************************)
(* SpecStatus : updateOrderStatus and cancelOrder of src/unnamed/part_014   *)
(*              (lines 56-123) on a store that holds Orders.                *)
(***************************************************************************)
(* enum of paymentStatus and of orderStatus in the Order schema *)
PaymentStatuses == {"pending", "paid", "refunded"}

OrderStatuses == {"confirmed", "processing", "completed", "cancelled"}

(* Orders the pipeline has persisted: one of a signed-in user, paid, and
   one of a guest, pending. *)
StoredOrders ==
  { [id |-> 1, userId |-> "u1", customer |-> Ama, items |-> <<ItOrange>>,
     totalAmount |-> 20, paystackReference |-> "R1", paymentStatus |-> "paid",
     orderStatus |-> "confirmed", orderNumber |-> OrderNumberOf(1), createdAt |-> 0],
    [id |-> 2, userId |-> Null, customer |-> Ama, items |-> <<ItMango>>,
     totalAmount |-> 7, paystackReference |-> "R2", paymentStatus |-> "pending",
     orderStatus |-> "confirmed", orderNumber |-> OrderNumberOf(2), createdAt |-> 0] }

(* req.params.id: a stored Order or none *)
OrderIds == {1, 2, 3}

(* req.body.orderStatus as the client sends it *)
StatusBodies == {[orderStatus |-> v] : v \in OrderStatuses \cup {"shipped"}}

(* req.user of the authenticated request *)
Requesters == {[id |-> "u1", isAdmin |-> FALSE], [id |-> "u2", isAdmin |-> FALSE],
               [id |-> "admin", isAdmin |-> TRUE]}

(* populate("userId", "email name"): the users that have an account *)
HasAccount(userId) == userId \in {"u1", "u2"}

OrderById(id) == {o \in orders : o.id = id}

StUpdReceive(c) ==
  /\ Arrives(c)
  /\ \E b \in StatusBodies, id \in OrderIds :
       calls' = [calls EXCEPT ![c].pc = "stUpdate",
                   ![c].req = [raw |-> JSONstringify(b), header |-> NoHeader, id |-> id]]
  /\ UNCHANGED <<orders, carts, counter, mail, now, adminEmail, paid, norm, smtp>>

(* Order.findByIdAndUpdate(id, { orderStatus }, { new: true }): the update
   runs no validators, so the value is written as sent. *)
StUpdate(c) ==
  /\ calls[c].pc = "stUpdate"
  /\ LET orderStatus == Payload(c).orderStatus
         found == OrderById(calls[c].req.id)
     IN IF found = {}
        THEN /\ orders' = orders
             /\ calls' = Finish(c, 404, "Order not found")
        ELSE /\ orders' = {IF o \in found THEN [o EXCEPT !.orderStatus = orderStatus]
                           ELSE o : o \in orders}
             /\ calls' = IF /\ orderStatus = "completed"
                            /\ \E o \in found : HasAccount(o.userId)
                         THEN [calls EXCEPT ![c].pc = "stUpdMail"]
                         ELSE Finish(c, 200, "Order status updated")
  /\ UNCHANGED <<carts, counter, mail, now, adminEmail, paid, norm, smtp>>

StUpdateFails(c) ==
  /\ calls[c].pc = "stUpdate"
  /\ calls' = [Finish(c, 500, "Failed to update order status")
                 EXCEPT ![c].storeFailed = TRUE]
  /\ UNCHANGED <<orders, carts, counter, mail, now, adminEmail, paid, norm, smtp>>

(* await sendEmail(...) inside try/catch *)
StUpdEmail(c) ==
  /\ calls[c].pc = "stUpdMail"
  /\ \E ok \in BOOLEAN :
       mail' = mail \cup {Mail(c, "completed", calls[c].req.id, ok)}
  /\ calls' = Finish(c, 200, "Order status updated")
  /\ UNCHANGED <<orders, carts, counter, now, adminEmail, paid, norm, smtp>>

StCancelReceive(c) ==
  /\ Arrives(c)
  /\ \E u \in Requesters, id \in OrderIds :
       calls' = [calls EXCEPT ![c].pc = "stCancelFind",
                   ![c].req = [raw |-> JSONstringify(EmptyObject), header |-> NoHeader,
                               id |-> id, user |-> u]]
  /\ UNCHANGED <<orders, carts, counter, mail, now, adminEmail, paid, norm, smtp>>

(* Order.findById and the authorization of the requester *)
StCancelFind(c) ==
  /\ calls[c].pc = "stCancelFind"
  /\ LET found == OrderById(calls[c].req.id)
         user == calls[c].req.user
     IN calls' = IF found = {} THEN Finish(c, 404, "Order not found")
                 ELSE IF (\A o \in found : o.userId # user.id) /\ ~user.isAdmin
                 THEN Finish(c, 403, "Not authorized to cancel this order")
                 ELSE [calls EXCEPT ![c].pc = "stCancelSave"]
  /\ UNCHANGED <<orders, carts, counter, mail, now, adminEmail, paid, norm, smtp>>

(* order.orderStatus = "cancelled"; order.paymentStatus = "refunded";
   await order.save() *)
StCancelSave(c) ==
  /\ calls[c].pc = "stCancelSave"
  /\ LET found == OrderById(calls[c].req.id)
     IN /\ orders' = {IF o \in found
                      THEN [o EXCEPT !.orderStatus = "cancelled",
                                     !.paymentStatus = "refunded"]
                      ELSE o : o \in orders}
        /\ calls' = IF \E o \in found : HasAccount(o.userId)
                    THEN [calls EXCEPT ![c].pc = "stCancelMail"]
                    ELSE Finish(c, 200, "Order cancelled")
  /\ UNCHANGED <<carts, counter, mail, now, adminEmail, paid, norm, smtp>>

StCancelSaveFails(c) ==
  /\ calls[c].pc = "stCancelSave"
  /\ calls' = [Finish(c, 500, "Failed to cancel order") EXCEPT ![c].storeFailed = TRUE]
  /\ UNCHANGED <<orders, carts, counter, mail, now, adminEmail, paid, norm, smtp>>

StCancelEmail(c) ==
  /\ calls[c].pc = "stCancelMail"
  /\ \E ok \in BOOLEAN :
       mail' = mail \cup {Mail(c, "cancelled", calls[c].req.id, ok)}
  /\ calls' = Finish(c, 200, "Order cancelled")
  /\ UNCHANGED <<orders, carts, counter, now, adminEmail, paid, norm, smtp>>

InitStatus ==
  /\ orders = StoredOrders
  /\ carts = InitCarts
  /\ counter = Cardinality(StoredOrders)
  /\ mail = {}
  /\ now = 0
  /\ calls = [c \in Calls |-> IdleCall]
  /\ adminEmail = TRUE
  /\ paid = {}
  /\ norm = NoNorm
  /\ smtp = NoSmtp

NextStatus ==
  \/ \E c \in Calls : StUpdReceive(c)
  \/ \E c \in Calls : StUpdate(c)
  \/ \E c \in Calls : StUpdateFails(c)
  \/ \E c \in Calls : StUpdEmail(c)
  \/ \E c \in Calls : StCancelReceive(c)
  \/ \E c \in Calls : StCancelFind(c)
  \/ \E c \in Calls : StCancelSave(c)
  \/ \E c \in Calls : StCancelSaveFails(c)
  \/ \E c \in Calls : StCancelEmail(c)

SpecStatus == InitStatus /\ [][NextStatus]_vars

(***************************************************************************)
(* SpecRedeliver : webhookPayment of src/unnamed/part_012 (lines 1619-1772) *)
(*                 under the gateway's redelivery: the gateway posts the    *)
(*                 signed event of a transaction again after every answer   *)
(*                 other than 200, and the store's failures end before the  *)
(*                 redeliveries do.                                         *)
(***************************************************************************)
(* The requests the gateway itself posts: signed over the bytes it sends *)
GatewayRequests == {[raw |-> r, header |-> Hmac(Secret, r)] : r \in GatewayRaws}

Redeliver(c) ==
  /\ calls[c].pc = "idle"
  /\ IF c = 1 THEN TRUE
     ELSE calls[c - 1].pc = "done" /\ calls[c - 1].resp.status # 200
  /\ \E r \in GatewayRequests :
       /\ IF c = 1 THEN TRUE ELSE r = calls[c - 1].req
       /\ LET e == WebhookEntry(RawBodyMiddleware(r))
          IN calls' = [calls EXCEPT ![c].pc = e.pc, ![c].req = r, ![c].resp = e.resp]
  /\ UNCHANGED <<orders, carts, counter, mail, now, adminEmail, paid, norm, smtp>>

(* The store rejecting the upsert, which it stops doing before the last
   redelivery. *)
UpsertFailsAWhile(c) ==
  /\ c < MaxCalls
  /\ UpsertFails(c)

NextRedeliver ==
  \/ \E c \in Calls : Redeliver(c)
  \/ \E c \in Calls : SendMismatchAlert(c)
  \/ \E c \in Calls : Upsert(c)
  \/ \E c \in Calls : UpsertFailsAWhile(c)
  \/ \E c \in Calls : AfterUpsert(c)
  \/ \E c \in Calls : ClearCart(c)
  \/ Tick

SpecRedeliver ==
  /\ Init /\ [][NextRedeliver]_vars
  /\ WF_vars(\E c \in Calls : Redeliver(c))
  /\ WF_vars(\E c \in Calls : SendMismatchAlert(c))
  /\ WF_vars(\E c \in Calls : Upsert(c))
  /\ WF_vars(\E c \in Calls : AfterUpsert(c))
  /\ WF_vars(\E c \in Calls : ClearCart(c))

(***************************************************************************)
(* SpecStatusCtl : updateOrderStatus and cancelOrder of                     *)
(*                 src/src/controllers/orderController.js (lines 69-121)    *)
(*                 on a store that holds Orders.                            *)
(***************************************************************************)
CtlStUpdReceive(c) ==
  /\ Arrives(c)
  /\ \E b \in StatusBodies, id \in OrderIds :
       calls' = [calls EXCEPT ![c].pc = "ctlStUpdate",
                   ![c].req = [raw |-> JSONstringify(b), header |-> NoHeader, id |-> id]]
  /\ UNCHANGED <<orders, carts, counter, mail, now, adminEmail, paid, norm, smtp>>

(* Order.findByIdAndUpdate(id, { orderStatus }, { new: true }); for
   "completed" the handler reads order.userId.email, which throws when the
   Order has no user, and the catch answers 500. *)
CtlStUpdate(c) ==
  /\ calls[c].pc = "ctlStUpdate"
  /\ LET orderStatus == Payload(c).orderStatus
         found == OrderById(calls[c].req.id)
     IN IF found = {}
        THEN /\ orders' = orders
             /\ calls' = Finish(c, 404, "Order not found")
        ELSE /\ orders' = {IF o \in found THEN [o EXCEPT !.orderStatus = orderStatus]
                           ELSE o : o \in orders}
             /\ calls' = IF orderStatus # "completed"
                         THEN Finish(c, 200, "Order status updated")
                         ELSE IF \E o \in found : HasAccount(o.userId)
                         THEN [calls EXCEPT ![c].pc = "ctlStUpdMail"]
                         ELSE Finish(c, 500, "Failed to update order status")
  /\ UNCHANGED <<carts, counter, mail, now, adminEmail, paid, norm, smtp>>

CtlStUpdateFails(c) ==
  /\ calls[c].pc = "ctlStUpdate"
  /\ calls' = [Finish(c, 500, "Failed to update order status")
                 EXCEPT ![c].storeFailed = TRUE]
  /\ UNCHANGED <<orders, carts, counter, mail, now, adminEmail, paid, norm, smtp>>

(* await sendEmail(...) with no try/catch of its own *)
CtlStUpdEmail(c) ==
  /\ calls[c].pc = "ctlStUpdMail"
  /\ \E ok \in BOOLEAN :
       /\ mail' = mail \cup {Mail(c, "completed", calls[c].req.id, ok)}
       /\ calls' = IF ok THEN Finish(c, 200, "Order status updated")
                   ELSE Finish(c, 500, "Failed to update order status")
  /\ UNCHANGED <<orders, carts, counter, now, adminEmail, paid, norm, smtp>>

CtlStCancelReceive(c) ==
  /\ Arrives(c)
  /\ \E u \in Requesters, id \in OrderIds :
       calls' = [calls EXCEPT ![c].pc = "ctlStCancel",
                   ![c].req = [raw |-> JSONstringify(EmptyObject), header |-> NoHeader,
                               id |-> id, user |-> u]]
  /\ UNCHANGED <<orders, carts, counter, mail, now, adminEmail, paid, norm, smtp>>

(* Order.findByIdAndUpdate(id, { orderStatus: "cancelled", paymentStatus:
   "refunded" }, { new: true }), whoever the requester is; then
   order.userId.email is read, which throws when the Order has no user. *)
CtlStCancel(c) ==
  /\ calls[c].pc = "ctlStCancel"
  /\ LET found == OrderById(calls[c].req.id)
     IN IF found = {}
        THEN /\ orders' = orders
             /\ calls' = Finish(c, 404, "Order not found")
        ELSE /\ orders' = {IF o \in found
                           THEN [o EXCEPT !.orderStatus = "cancelled",
                                          !.paymentStatus = "refunded"]
                           ELSE o : o \in orders}
             /\ calls' = IF \E o \in found : HasAccount(o.userId)
                         THEN [calls EXCEPT ![c].pc = "ctlStCancelMail"]
                         ELSE Finish(c, 500, "Failed to cancel order")
  /\ UNCHANGED <<carts, counter, mail, now, adminEmail, paid, norm, smtp>>

CtlStCancelFails(c) ==
  /\ calls[c].pc = "ctlStCancel"
  /\ calls' = [Finish(c, 500, "Failed to cancel order") EXCEPT ![c].storeFailed = TRUE]
  /\ UNCHANGED <<orders, carts, counter, mail, now, adminEmail, paid, norm, smtp>>

CtlStCancelEmail(c) ==
  /\ calls[c].pc = "ctlStCancelMail"
  /\ \E ok \in BOOLEAN :
       /\ mail' = mail \cup {Mail(c, "cancelled", calls[c].req.id, ok)}
       /\ calls' = IF ok THEN Finish(c, 200, "Order cancelled")
                   ELSE Finish(c, 500, "Failed to cancel order")
  /\ UNCHANGED <<orders, carts, counter, now, adminEmail, paid, norm, smtp>>

NextStatusCtl ==
  \/ \E c \in Calls : CtlStUpdReceive(c)
  \/ \E c \in Calls : CtlStUpdate(c)
  \/ \E c \in Calls : CtlStUpdateFails(c)
  \/ \E c \in Calls : CtlStUpdEmail(c)
  \/ \E c \in Calls : CtlStCancelReceive(c)
  \/ \E c \in Calls : CtlStCancel(c)
  \/ \E c \in Calls : CtlStCancelFails(c)
  \/ \E c \in Calls : CtlStCancelEmail(c)

SpecStatusCtl == InitStatus /\ [][NextStatusCtl]_vars

(***************************************************************************)
(* SpecCart : updateCartItemPack of src/unnamed/part_015 (lines 106-135).   *)
(*            A cart entry is a document with the fields the controller     *)
(*            reads and writes: _id, userId, drinkId, pack, quantity.       *)
(***************************************************************************)
InitCartEntries ==
  {[id |-> 1, userId |-> "u1", drinkId |-> "d1", pack |-> 1, quantity |-> 2],
   [id |-> 2, userId |-> "u1", drinkId |-> "d1", pack |-> 2, quantity |-> 1],
   [id |-> 3, userId |-> "u2", drinkId |-> "d1", pack |-> 1, quantity |-> 3]}

(* req.params.id: an entry of the store or none *)
CartIds == {1, 2, 3, 4}

(* req.user._id *)
CartUsers == {"u1", "u2"}

(* req.body: a pack, or a body without one, which Number() turns into NaN *)
PackBodies == {[pack |-> v] : v \in {1, 2, 3}} \cup {[size |-> 1]}

CartById(id) == {e \in carts : e.id = id}

PackReceive(c) ==
  /\ Arrives(c)
  /\ \E b \in PackBodies, id \in CartIds, u \in CartUsers :
       calls' = [calls EXCEPT
                   ![c].pc = IF ~Has(b, "pack") THEN "done" ELSE "packFind",
                   ![c].resp = IF ~Has(b, "pack") THEN Resp(400, "Invalid pack value")
                               ELSE NoResp,
                   ![c].req = [raw |-> JSONstringify(b), header |-> NoHeader,
                               id |-> id, user |-> u]]
  /\ UNCHANGED <<orders, carts, counter, mail, now, adminEmail, paid, norm, smtp>>

(* const cartItem = await Cart.findById(id) *)
PackFind(c) ==
  /\ calls[c].pc = "packFind"
  /\ LET found == CartById(calls[c].req.id)
     IN calls' = IF found = {} THEN Finish(c, 404, "Cart item not found")
                 ELSE [calls EXCEPT ![c].pc = "packFindExisting",
                                    ![c].cartItem = CHOOSE e \in found : TRUE]
  /\ UNCHANGED <<orders, carts, counter, mail, now, adminEmail, paid, norm, smtp>>

(* const existingItem = await Cart.findOne({ userId, drinkId, pack }) *)
PackFindExisting(c) ==
  /\ calls[c].pc = "packFindExisting"
  /\ LET found == {e \in carts : /\ e.userId = calls[c].req.user
                                 /\ e.drinkId = calls[c].cartItem.drinkId
                                 /\ e.pack = Payload(c).pack}
     IN calls' = IF found = {} THEN [calls EXCEPT ![c].pc = "packSave"]
                 ELSE [calls EXCEPT ![c].pc = "packMergeSave",
                                    ![c].existingItem = CHOOSE e \in found : TRUE]
  /\ UNCHANGED <<orders, carts, counter, mail, now, adminEmail, paid, norm, smtp>>

(* existingItem.quantity += cartItem.quantity; await existingItem.save():
   the save fails when the document is no longer in the store. *)
PackMergeSave(c) ==
  /\ calls[c].pc = "packMergeSave"
  /\ LET target == CartById(calls[c].existingItem.id)
         quantity == calls[c].existingItem.quantity + calls[c].cartItem.quantity
     IN IF target = {}
        THEN /\ carts' = carts
             /\ calls' = Finish(c, 500, "Server error")
        ELSE /\ carts' = {IF e \in target THEN [e EXCEPT !.quantity = quantity]
                          ELSE e : e \in carts}
             /\ calls' = [calls EXCEPT ![c].pc = "packDelete"]
  /\ UNCHANGED <<orders, counter, mail, now, adminEmail, paid, norm, smtp>>

(* await cartItem.deleteOne(), then the answer *)
PackDelete(c) ==
  /\ calls[c].pc = "packDelete"
  /\ carts' = carts \ CartById(calls[c].cartItem.id)
  /\ calls' = Finish(c, 200, "Pack updated (merged with existing item)")
  /\ UNCHANGED <<orders, counter, mail, now, adminEmail, paid, norm, smtp>>

(* cartItem.pack = pack; await cartItem.save(): the save fails when the
   document is no longer in the store or when the unique index on userId,
   drinkId and pack finds another entry. *)
PackSave(c) ==
  /\ calls[c].pc = "packSave"
  /\ LET target == CartById(calls[c].cartItem.id)
         pack == Payload(c).pack
         clash == {e \in carts : /\ e.id # calls[c].cartItem.id
                                 /\ e.userId = calls[c].cartItem.userId
                                 /\ e.drinkId = calls[c].cartItem.drinkId
                                 /\ e.pack = pack}
     IN IF target = {} \/ clash # {}
        THEN /\ carts' = carts
             /\ calls' = Finish(c, 500, "Server error")
        ELSE /\ carts' = {IF e \in target THEN [e EXCEPT !.pack = pack]
                          ELSE e : e \in carts}
             /\ calls' = Finish(c, 200, "Pack updated")
  /\ UNCHANGED <<orders, counter, mail, now, adminEmail, paid, norm, smtp>>

(* A store operation of the call rejects: the catch answers 500. *)
PackStoreFails(c) ==
  /\ calls[c].pc \in {"packFind", "packFindExisting", "packMergeSave",
                      "packDelete", "packSave"}
  /\ calls' = [Finish(c, 500, "Server error") EXCEPT ![c].storeFailed = TRUE]
  /\ UNCHANGED <<orders, carts, counter, mail, now, adminEmail, paid, norm, smtp>>

InitCart ==
  /\ orders = {}
  /\ carts = InitCartEntries
  /\ counter = 0
  /\ mail = {}
  /\ now = 0
  /\ calls = [c \in Calls |-> IdleCall]
  /\ adminEmail = TRUE
  /\ paid = {}
  /\ norm = NoNorm
  /\ smtp = NoSmtp

NextCart ==
  \/ \E c \in Calls : PackReceive(c)
  \/ \E c \in Calls : PackFind(c)
  \/ \E c \in Calls : PackFindExisting(c)
  \/ \E c \in Calls : PackMergeSave(c)
  \/ \E c \in Calls : PackDelete(c)
  \/ \E c \in Calls : PackSave(c)
  \/ \E c \in Calls : PackStoreFails(c)

SpecCart == InitCart /\ [][NextCart]_vars

(* ------------------------------ properties ---------------------------- *)
Received(c) == calls[c].pc # "idle"

Done(c) == calls[c].pc = "done"

Ref(c) == Payload(c).reference

SignedOverRawBody(c) == calls[c].req.header = Hmac(Secret, calls[c].req.raw)

(* The call's request passed the signature check and carries a
   charge.success event with a customer email and at least one item that
   names a product. *)
ValidCharge(c) ==
  LET p == Payload(c) IN
  /\ Received(c)
  /\ verifyPaystackSignature(RawBodyMiddleware(calls[c].req))
  /\ p.event = "charge.success"
  /\ Has(p.metadata, "items")
  /\ \E i \in 1..Len(p.metadata.items) : Has(p.metadata.items[i], "drinkId")
  /\ Has(p.metadata, "customer")
  /\ Has(p.metadata.customer, "email")

(* The store operation of the call has been carried out. *)
PastStore(c) ==
  \/ calls[c].pc \in {"upserted", "clearCart"}
  \/ Done(c) /\ calls[c].resp.status = 200 /\ ValidCharge(c)

MailOf(c) == {m \in mail : m.call = c}

(* C1: however the webhook calls for one payment reference interleave, the
   store never holds two Orders with that reference, and once a call with a
   valid charge.success payload has carried out its store operation exactly
   one Order with its reference exists. *)
C1_ExactlyOneOrderPerReference ==
  /\ \A o1, o2 \in orders :
       o1.paystackReference = o2.paystackReference => o1 = o2
  /\ \A c \in Calls :
       ValidCharge(c) /\ PastStore(c) => Cardinality(OrdersFor(Ref(c))) = 1

(* Two deliveries of one payload have both answered 200, the later arrival
   having inserted the Order, and one Order exists. *)
C1_Witness ==
  /\ \A c \in {1, 2} : Done(c) /\ ValidCharge(c) /\ calls[c].resp.status = 200
  /\ Ref(1) = Ref(2)
  /\ calls[2].inserted /\ ~calls[1].inserted
  /\ Cardinality(OrdersFor(Ref(1))) = 1

(* C2: among the deliveries of one charge.success payload at most one is
   treated as having created the Order; every other delivery sends no
   notification and deletes no cart entry. *)
C2_OneDeliveryCreates ==
  /\ \A c1, c2 \in Calls :
       (/\ calls[c1].isNew /\ calls[c2].isNew
        /\ Ref(c1) = Ref(c2)) => c1 = c2
  /\ \A c \in Calls :
       Done(c) /\ ~calls[c].isNew =>
         {m \in MailOf(c) : m.kind # "mismatch"} = {} /\ ~calls[c].cleared

(* C3: the customer confirmation for a payment reference is dispatched at
   most once, however often the webhook for it is delivered. *)
C3_CustomerMailAtMostOnce ==
  \A m1, m2 \in mail :
    (m1.kind = "customer" /\ m2.kind = "customer" /\ m1.ref = m2.ref) => m1 = m2

(* C4: every persisted Order line whose product is in the catalog carries
   the price of the catalog-resolved pack. *)
C4_LinePriceFromCatalog ==
  \A o \in orders :
    \A i \in 1..Len(o.items) :
      o.items[i].drinkId \in DOMAIN Catalog =>
        o.items[i].price = SelectedPack(o.items[i].drinkId, o.items[i].pack).price

(* C5: every persisted Order has totalAmount equal to the sum over its
   persisted items of price times quantity, whatever amount the gateway
   reports as charged. *)
C5_TotalIsSumOfLines ==
  \A o \in orders :
    o.totalAmount =
      SumSeq([i \in 1..Len(o.items) |-> o.items[i].price * o.items[i].quantity])

(* C8: a charge.success payload with a customer, a complete non-empty item
   list and no owning-user identifier, handled without a store failure,
   leaves an Order for its reference whose userId is null, and the call
   deletes no cart entry. *)
C8_GuestOrderCreated ==
  \A c \in Calls :
    LET p == Payload(c)
        md == p.metadata
    IN (/\ Done(c) /\ ~calls[c].storeFailed
        /\ p.event = "charge.success"
        /\ ~Has(md, "userId")
        /\ Has(md, "cart") /\ Len(md.cart) > 0
        /\ \A i \in 1..Len(md.cart) : ~NeedsLookup(md.cart[i])
        /\ Has(md, "customer") /\ Has(md.customer, "email"))
       => /\ \E o \in OrdersFor(p.reference) : o.userId = Null
          /\ ~calls[c].cleared

(* C6: a request whose body does not match the HMAC in its signature header
   is answered 401 and has no effect. *)
C6_UnsignedBodyRejected ==
  \A c \in Calls :
    Received(c) /\ ~SignedOverRawBody(c) =>
      /\ Done(c) /\ calls[c].resp.status = 401
      /\ ~calls[c].inserted /\ ~calls[c].cleared /\ MailOf(c) = {}

(* C7: a request whose header is the HMAC of its raw body is accepted,
   whatever the layout of the body. *)
C7_SignedRawBodyAccepted ==
  \A c \in Calls :
    Received(c) /\ SignedOverRawBody(c) => calls[c].resp.status # 401

(* C9: a valid charge.success payload with items but no customer email
   still yields a persisted Order. *)
C9_OrderWithoutEmail ==
  \A c \in Calls :
    LET p == Payload(c) IN
    (/\ Done(c) /\ ~calls[c].storeFailed
     /\ verifyPaystackSignature(RawBodyMiddleware(calls[c].req))
     /\ p.event = "charge.success"
     /\ Has(p.metadata, "items")
     /\ \E i \in 1..Len(p.metadata.items) : Has(p.metadata.items[i], "drinkId")
     /\ Has(p.metadata, "customer")
     /\ ~Has(p.metadata.customer, "email"))
    => OrdersFor(p.reference) # {}

Mismatched(c) ==
  /\ ValidCharge(c)
  /\ AmountMismatch(Payload(c).amount, normalizeItems(Payload(c).metadata.items).total)

(* C10: a call whose charged amount differs from the computed total by more
   than the tolerance, and whose store operation does not fail, answers 200
   and leaves an Order for the reference whose totalAmount is the computed
   total. *)
C10_MismatchIsNotFatal ==
  \A c \in Calls :
    Done(c) /\ Mismatched(c) /\ ~calls[c].storeFailed =>
      /\ calls[c].resp.status = 200
      /\ \E o \in OrdersFor(Ref(c)) :
           o.totalAmount = normalizeItems(Payload(c).metadata.items).total

C10_Witness ==
  \E c \in Calls :
    /\ Done(c) /\ Mismatched(c) /\ calls[c].resp.status = 200
    /\ \E o \in OrdersFor(Ref(c)) :
         o.totalAmount * MinorPerUnit + ToleranceMinor < Payload(c).amount

(* C11: the admin alert about an amount mismatch is emitted at most once per
   payment reference, however often the webhook for the reference is
   delivered. *)
C11_MismatchAlertOncePerReference ==
  \A m1, m2 \in mail :
    (m1.kind = "mismatch" /\ m2.kind = "mismatch" /\ m1.ref = m2.ref) => m1 = m2

(* The metadata lists its items under cart and its customer as flat keys. *)
AlternateShape(md) ==
  /\ ~Has(md, "items") /\ ~Has(md, "customer")
  /\ Has(md, "cart") /\ Has(md, "fullName") /\ Has(md, "email")

(* The same values under items and a nested customer object. *)
NestedShape(p) ==
  LET md == p.metadata
  IN [p EXCEPT !.metadata =
        [userId |-> md.userId,
         customer |-> [fullName |-> md.fullName, email |-> md.email],
         items |-> md.cart]]

(* The request the gateway makes of a payload, as the route hands it on. *)
SignedRequest(p) ==
  RawBodyMiddleware([raw |-> JSONstringify(p),
                     header |-> Hmac(Secret, JSONstringify(p))])

(* C12: a signed charge.success payload that carries its items under cart
   and its customer as flat keys has the outcome of the payload carrying the
   same values under items and a nested customer: the same refusal, or an
   Order with the same canonical items and customer. *)
C12_ShapeIndependent ==
  \A c \in Calls :
    LET p == Payload(c)
    IN (/\ Done(c) /\ ~calls[c].storeFailed
        /\ verifyPaystackSignature(RawBodyMiddleware(calls[c].req))
        /\ p.event = "charge.success"
        /\ AlternateShape(p.metadata))
       => LET q == NestedShape(p)
              e == WebhookEntry(SignedRequest(q))
          IN IF e.pc = "done"
             THEN calls[c].resp = e.resp
             ELSE \E o \in OrdersFor(p.reference) :
                    /\ o.items = normalizeItems(q.metadata.items).items
                    /\ o.customer = q.metadata.customer

(* The sources of one field, in the order of their priority: the nested
   customer object, the flat metadata keys, the gateway's customer. *)
NameSources(data) ==
  <<Get(IF Has(data.metadata, "customer") THEN data.metadata.customer
        ELSE EmptyObject, "fullName"),
    Get(data.metadata, "fullName"),
    IF Truthy(GatewayField(data, "first_name")) \/ Truthy(GatewayField(data, "last_name"))
    THEN GatewayField(data, "first_name") \o " " \o GatewayField(data, "last_name")
    ELSE Undefined>>

AddressSources(data) ==
  <<Get(IF Has(data.metadata, "customer") THEN data.metadata.customer
        ELSE EmptyObject, "address"),
    Get(data.metadata, "address"),
    GatewayMeta(data, "address")>>

(* The first source that supplies a value, else the literal default. *)
ByPriority(sources, default) ==
  IF Truthy(sources[1]) THEN sources[1]
  ELSE IF Truthy(sources[2]) THEN sources[2]
  ELSE IF Truthy(sources[3]) THEN sources[3]
  ELSE default

(* C13: the built customer takes fullName and address from the nested
   object, else the flat keys, else the gateway's customer, else the literal
   default: "Customer" when no source supplies a name, "Not provided" when
   none supplies an address. *)
C13_CustomerPriorityAndDefaults ==
  norm.pc = "built" =>
    /\ norm.customer.fullName = ByPriority(NameSources(norm.data), "Customer")
    /\ norm.customer.address = ByPriority(AddressSources(norm.data), "Not provided")

(* The metadata carries no usable item list for the order controller: none
   under cart, an empty one, or one without any product id. *)
NoUsableCart(md) ==
  \/ ~Has(md, "cart")
  \/ Len(md.cart) = 0
  \/ \A i \in 1..Len(md.cart) : ~Has(md.cart[i], "drinkId")

(* C14: a charge.success call without a usable item list creates no Order,
   draws no order number from the counter, deletes no cart entry and is
   answered with a 400-class status. *)
C14_NoItemsRejectedCleanly ==
  \A c \in Calls :
    (/\ Received(c)
     /\ Payload(c).event = "charge.success"
     /\ NoUsableCart(Payload(c).metadata))
    => /\ ~calls[c].inserted /\ ~calls[c].cleared
       /\ calls[c].num = <<>>
       /\ Done(c) => calls[c].resp.status \in 400..499

(* C15: a call whose header is the HMAC of its raw body and whose event is
   not charge.success is answered 200 and has no effect: it inserts no
   Order, draws no order number, deletes no cart entry and sends no mail. *)
C15_OtherEventsAcknowledged ==
  \A c \in Calls :
    (/\ Received(c)
     /\ SignedOverRawBody(c)
     /\ Payload(c).event # "charge.success")
    => /\ Done(c) /\ calls[c].resp.status = 200
       /\ ~calls[c].inserted /\ ~calls[c].cleared
       /\ calls[c].num = <<>>
       /\ MailOf(c) = {}

(* C16: once a call has created its Order, the two notification sends are
   attempted independently: a failed customer send is followed by the admin
   send when an admin address is configured, a failed admin send leaves the
   customer send attempted when the customer has an address, and the Order
   stays in the store either way. *)
C16_SendsIndependent ==
  \A c \in Calls :
    (Done(c) /\ calls[c].inserted) =>
      LET sent == MailOf(c)
          customerSends == {m \in sent : m.kind = "customer"}
          adminSends == {m \in sent : m.kind = "admin"}
      IN /\ (adminEmail /\ \E m \in customerSends : ~m.ok) => adminSends # {}
         /\ (\E m \in adminSends : ~m.ok) /\ Has(Payload(c).metadata.customer, "email")
              => customerSends # {}
         /\ OrdersFor(Payload(c).reference) # {}

(* ------------------------- properties of the mail sender -------------- *)
PrimaryOutcomes == SelectSeq(smtp.log, LAMBDA a : a.transport = "primary")

PrimaryAttempts == Len(PrimaryOutcomes)

FallbackAttempts == Len(SelectSeq(smtp.log, LAMBDA a : a.transport = "fallback"))

Terminated == smtp.pc \in {"returned", "thrown"}

SomeAttemptSucceeded == \E i \in 1..Len(smtp.log) : smtp.log[i].outcome = "ok"

(* C17: trySendMail terminates, and it never makes more than retries + 1
   attempts on the primary transport, whatever the attempts end in. *)
C17_TerminatesWithinRetries ==
  /\ <>Terminated
  /\ [](PrimaryAttempts <= smtp.call.retries + 1)

(* Called with the default retries, both primary attempts failed with
   transient codes and the send has ended. *)
C17_Witness ==
  /\ Terminated
  /\ smtp.call.retries = DefaultRetries
  /\ PrimaryAttempts = DefaultRetries + 1
  /\ \A i \in 1..PrimaryAttempts : PrimaryOutcomes[i].outcome \in transientCodes

(* C18: a primary attempt is followed by another primary attempt only if it
   failed with one of the transient codes and attempts remained; after a
   failure with any other code no primary attempt follows. *)
C18_RetryOnlyAfterTransient ==
  \A i \in 1..(PrimaryAttempts - 1) :
    /\ PrimaryOutcomes[i].outcome \in transientCodes
    /\ i <= smtp.call.retries

(* With retries left, the first primary attempt failed with a code outside
   the list and the send ended without a second primary attempt. *)
C18_Witness ==
  /\ Terminated
  /\ smtp.call.retries >= 1
  /\ PrimaryAttempts = 1
  /\ PrimaryOutcomes[1].outcome = "EAUTH"

(* The primary transport is through without success: every attempt failed,
   and the last one used up the retries or failed with a code that is not
   retried. *)
PrimaryExhausted ==
  /\ PrimaryAttempts >= 1
  /\ \A i \in 1..PrimaryAttempts : PrimaryOutcomes[i].outcome # "ok"
  /\ \/ PrimaryAttempts = smtp.call.retries + 1
     \/ PrimaryOutcomes[PrimaryAttempts].outcome \notin transientCodes

FallbackConfigured == smtp.call.fallback /\ smtp.call.fallbackHost

(* C19: the fallback transport is attempted at most once, only when it is
   enabled and its host configured and the primary attempts are through
   without success, and then as the last attempt of the send; a send that
   has ended under these conditions has attempted it exactly once. *)
C19_FallbackExactlyOnceWhenExhausted ==
  /\ FallbackAttempts <= 1
  /\ FallbackAttempts = 1 =>
       /\ FallbackConfigured
       /\ PrimaryExhausted
       /\ smtp.log[Len(smtp.log)].transport = "fallback"
  /\ (Terminated /\ FallbackConfigured /\ PrimaryExhausted) => FallbackAttempts = 1

(* Both primary attempts of a send with the default retries failed and the
   fallback was attempted once. *)
C19_Witness ==
  /\ Terminated
  /\ smtp.call.retries = DefaultRetries
  /\ PrimaryAttempts = DefaultRetries + 1
  /\ FallbackAttempts = 1

(* C20: the send reports success exactly if some attempt succeeded, a
   successful attempt is the last attempt of the send, and the persisted
   Order is the same whatever the outcome. *)
C20_SuccessIffSomeAttemptSucceeded ==
  /\ \A i \in 1..Len(smtp.log) : smtp.log[i].outcome = "ok" => i = Len(smtp.log)
  /\ SomeAttemptSucceeded => smtp.pc = "returned"
  /\ Terminated => (smtp.pc = "returned" <=> SomeAttemptSucceeded)
  /\ orders = {MailOrder}

(* sendEmail: two transient failures on the primary transport, then a
   successful fallback send, reported as success. *)
C20_Witness ==
  /\ smtp.call.caller = "sendEmail"
  /\ smtp.pc = "returned"
  /\ smtp.log = <<Attempt("primary", "ETIMEDOUT"), Attempt("primary", "ECONNRESET"),
                  Attempt("fallback", "ok")>>
  /\ orders = {MailOrder}

(* C21: a call deletes cart entries only if it has itself inserted the
   Order. *)
C21_CartClearedOnlyByCreator ==
  \A c \in Calls : calls[c].cleared => calls[c].inserted

(* C22: when the cart deletion of a call that created its Order fails, the
   call still answers 200 and the Order stays in the store. *)
C22_CartFailureNotFatal ==
  \A c \in Calls :
    (calls[c].clearFailed /\ calls[c].inserted) =>
      /\ Done(c) /\ calls[c].resp.status = 200
      /\ OrdersFor(Payload(c).reference) # {}

(* C23: a verifyPayment call whose lookup runs when an Order for its
   reference exists ends there with the redirect: it has inserted nothing,
   taken no order number, deleted no cart entry, and the step leaves the
   Orders, the carts, the notifications and the Counter as they were. *)
C23_VerifyExistingIsNoOp ==
  [][\A c \in Calls :
       (/\ calls[c].pc = "verFind" /\ calls'[c].pc # "verFind"
        /\ OrdersFor(Ref(c)) # {}) =>
         /\ calls'[c].pc = "done" /\ calls'[c].resp = Redirect
         /\ ~calls'[c].inserted /\ ~calls'[c].cleared /\ calls'[c].num = <<>>
         /\ orders' = orders /\ carts' = carts
         /\ mail' = mail /\ counter' = counter]_vars

(* A verifyPayment call has been redirected without inserting, the Order of
   its reference having been inserted by a webhook call. *)
C23_Witness ==
  \E v, w \in Calls :
    /\ calls[v].verify /\ Done(v) /\ calls[v].resp = Redirect
    /\ ~calls[v].inserted /\ MailOf(v) = {}
    /\ ~calls[w].verify /\ calls[w].inserted /\ Ref(w) = Ref(v)
    /\ Cardinality(OrdersFor(Ref(v))) = 1

(* A webhookPayment call w and a verifyPayment call v for one successfully
   charged reference have both ended, no collaborator having failed. *)
RacePair(w, v) ==
  /\ Done(w) /\ Done(v)
  /\ ~calls[w].verify /\ calls[v].verify
  /\ Ref(w) = Ref(v)
  /\ ValidCharge(w)
  /\ Payload(v).event = "charge.success"
  /\ Has(Payload(v).metadata, "items")
  /\ VerifyDocValid(Payload(v))
  /\ \A c \in {w, v} : ~calls[c].storeFailed /\ ~calls[c].gatewayFailed

(* C24: when a webhookPayment call and a verifyPayment call for one paid
   reference have both ended, exactly one Order exists for the reference,
   the webhook call answered 200 and the verify call was redirected. *)
C24_RaceLoserSucceeds ==
  \A w, v \in Calls :
    RacePair(w, v) =>
      /\ Cardinality(OrdersFor(Ref(w))) = 1
      /\ calls[w].resp.status = 200
      /\ calls[v].resp = Redirect

(* The number a sequence of decimal digits denotes. *)
RECURSIVE NumberOf(_)
NumberOf(ds) ==
  IF Len(ds) = 0 THEN 0
  ELSE 10 * NumberOf(SubSeq(ds, 1, Len(ds) - 1)) + ds[Len(ds)]

(* C25: no two calls hold the same order number, and every order number
   handed out is strictly greater than every order number handed out
   before it. *)
C25_OrderNumbersUniqueAndIncreasing ==
  /\ [](\A c1, c2 \in Calls :
          (c1 # c2 /\ calls[c1].num # <<>> /\ calls[c2].num # <<>>) =>
            calls[c1].num # calls[c2].num)
  /\ [][\A c \in Calls :
          (calls[c].num = <<>> /\ calls'[c].num # <<>>) =>
            \A d \in Calls :
              calls[d].num # <<>> =>
                NumberOf(calls'[c].num) > NumberOf(calls[d].num)]_vars

(* Two calls for one reference have both passed the lookup before either
   created the Order, and each drew a number. *)
C25_Witness ==
  /\ calls[1].num = OrderNumberOf(1) /\ calls[2].num = OrderNumberOf(2)
  /\ Ref(1) = Ref(2)
  /\ counter = 2

(* C26: every Order in the store carries an order number that the Counter
   handed out, and no two Orders carry the same order number. *)
C26_EveryOrderNumbered ==
  /\ \A o \in orders :
       /\ Has(o, "orderNumber")
       /\ o.orderNumber # <<>>
       /\ NumberOf(o.orderNumber) \in 1..counter
  /\ \A o1, o2 \in orders :
       (Has(o1, "orderNumber") /\ Has(o2, "orderNumber")
        /\ o1.orderNumber = o2.orderNumber) => o1 = o2

(* C27: the Order a webhook call inserted for a successful charge has
   paymentStatus "paid"; the Order a createOrderFromCheckout call inserted
   has paymentStatus "pending". *)
C27_PaymentStatusByPath ==
  \A c \in Calls :
    calls[c].inserted =>
      \A o \in OrdersFor(Ref(c)) :
        o.paymentStatus = IF calls[c].checkout THEN "pending" ELSE "paid"

(* The items the cart entries of a user and the catalog give. *)
ServerItems(userId) ==
  LET cartItems == SeqOfSet({e \in InitCarts : e.userId = userId})
  IN [i \in 1..Len(cartItems) |-> CartItem(cartItems[i])]

(* C28: the Order a createOrderFromCheckout call inserted has the items
   that the cart entries of its user and the catalog give, and their sum as
   totalAmount, whatever items, prices or total the request body lists. *)
C28_CheckoutOrderFromServerData ==
  \A c \in Calls :
    (calls[c].checkout /\ calls[c].inserted) =>
      \A o \in OrdersFor(Ref(c)) :
        /\ o.items = ServerItems(calls[c].req.user)
        /\ o.totalAmount = SumSeq(LineTotals(ServerItems(calls[c].req.user)))

(* C29: every Order in the store has a paymentStatus among pending, paid
   and refunded and an orderStatus among confirmed, processing, completed
   and cancelled. *)
C29_StatusesWithinEnums ==
  \A o \in orders :
    /\ o.paymentStatus \in PaymentStatuses
    /\ o.orderStatus \in OrderStatuses

(* C30: a webhook call that answered 500 because its store operation failed
   has inserted no Order, dispatched no notification or alert, taken no
   order number and deleted no cart entry. *)
C30_FailedPersistenceHasNoEffect ==
  \A c \in Calls :
    (Done(c) /\ calls[c].storeFailed /\ calls[c].resp.status = 500) =>
      /\ ~calls[c].inserted
      /\ MailOf(c) = {}
      /\ calls[c].num = <<>>
      /\ ~calls[c].cleared

(* C31: a webhook call some of whose customer, admin or mismatch-alert sends
   failed, and whose store and cart operations did not fail, answers what it
   answers when every send succeeds: 200, with the Order of its reference in
   the store. *)
C31_ResponseIndependentOfSends ==
  \A c \in Calls :
    (/\ Done(c) /\ ~calls[c].storeFailed /\ ~calls[c].clearFailed
     /\ \E m \in MailOf(c) : ~m.ok) =>
      /\ calls[c].resp.status = 200
      /\ OrdersFor(Ref(c)) # {}

(* The gateway's first delivery is a charge.success event with a non-empty
   item list, signed over the bytes sent. *)
PaidEventDelivered ==
  /\ Received(1)
  /\ SignedOverRawBody(1)
  /\ Payload(1).event = "charge.success"
  /\ Has(Payload(1).metadata, "items")
  /\ Len(Payload(1).metadata.items) > 0

(* C32: when the gateway delivers, and redelivers until it is answered 200,
   a correctly signed charge.success event with a non-empty item list, an
   Order with the event's reference eventually exists. *)
C32_PaidOrderEventuallyExists ==
  PaidEventDelivered ~> (Received(1) /\ OrdersFor(Ref(1)) # {})

(* C33: a verifyPayment call has inserted an Order only for a transaction
   the gateway reports as successful; the step in which the gateway reports
   another status ends the call with 400 and leaves the Orders, the
   notifications and the carts as they were. *)
C33_VerifyCreatesOnlyOnSuccess ==
  /\ [](\A c \in Calls :
          (calls[c].verify /\ calls[c].inserted) =>
            Payload(c).event = "charge.success")
  /\ [][\A c \in Calls :
          (/\ calls[c].pc = "verQuery" /\ calls'[c].pc # "verQuery"
           /\ ~calls'[c].gatewayFailed
           /\ Payload(c).event # "charge.success") =>
            /\ calls'[c].pc = "done" /\ calls'[c].resp.status = 400
            /\ ~calls'[c].inserted /\ ~calls'[c].cleared
            /\ orders' = orders /\ mail' = mail /\ carts' = carts]_vars

(* A verifyPayment call for a transaction that was not charged has been
   answered 400 and the store holds no Order for the reference. *)
C33_Witness ==
  \E c \in Calls :
    /\ calls[c].verify /\ Done(c)
    /\ Payload(c).event # "charge.success"
    /\ calls[c].resp = Resp(400, "Payment was not successful")
    /\ OrdersFor(Ref(c)) = {}

(* A createOrderFromCheckout call has ended whose body the handler can turn
   into an Order: a reference, a customer with name and email, and either
   no items or items that need no completion from the catalog; the call
   was not refused for an empty cart and its store operations did not
   fail. *)
CheckoutServed(c) ==
  /\ calls[c].checkout /\ Done(c)
  /\ Truthy(Payload(c).reference)
  /\ Truthy(Get(Payload(c).customer, "email"))
  /\ Has(Payload(c), "items") =>
       \A i \in 1..Len(Payload(c).items) : ~NeedsLookup(Payload(c).items[i])
  /\ calls[c].resp.status # 404
  /\ ~calls[c].storeFailed

(* C34: when two createOrderFromCheckout calls for one reference have both
   ended, exactly one Order with the reference exists, one call answered 201
   and the other 200. *)
C34_CheckoutRaceLoserSucceeds ==
  \A c1, c2 \in Calls :
    (c1 # c2 /\ CheckoutServed(c1) /\ CheckoutServed(c2) /\ Ref(c1) = Ref(c2)) =>
      /\ Cardinality(OrdersFor(Ref(c1))) = 1
      /\ {calls[c1].resp.status, calls[c2].resp.status} = {200, 201}

(* A cancelOrder call that has not ended yet. *)
CancelRunning(c) ==
  calls[c].pc \in {"stCancelFind", "stCancelSave", "stCancelMail",
                   "ctlStCancel", "ctlStCancelMail"}

(* The requester of the call is the user of the Order it names, or an
   admin. *)
OwnerOrAdmin(c) ==
  \/ calls[c].req.user.isAdmin
  \/ \E o \in OrderById(calls[c].req.id) : o.userId = calls[c].req.user.id

(* C35: a step of a cancelOrder call whose requester is neither the user of
   the Order it names nor an admin ends the call with 403 and leaves every
   Order as it was. *)
C35_CancelOnlyByOwnerOrAdmin ==
  [][\A c \in Calls :
       (/\ CancelRunning(c) /\ calls'[c] # calls[c]
        /\ OrderById(calls[c].req.id) # {}
        /\ ~OwnerOrAdmin(c)) =>
         /\ calls'[c].pc = "done" /\ calls'[c].resp.status = 403
         /\ orders' = orders]_vars

(* C36: once a webhook call for a charge.success event has been answered
   200, an Order with the event's reference exists and its paymentStatus is
   "paid". *)
C36_AcknowledgedChargeIsPaid ==
  \A c \in Calls :
    (/\ Done(c) /\ ~calls[c].checkout
     /\ Payload(c).event = "charge.success"
     /\ calls[c].resp.status = 200) =>
      /\ OrdersFor(Ref(c)) # {}
      /\ \A o \in OrdersFor(Ref(c)) : o.paymentStatus = "paid"

(* C37: every Order in the store has paymentStatus "refunded" exactly when
   its orderStatus is "cancelled". *)
C37_RefundedIffCancelled ==
  \A o \in orders :
    (o.paymentStatus = "refunded") <=> (o.orderStatus = "cancelled")

(* No call is under way and no store operation of a call has failed. *)
Quiescent ==
  \A c \in Calls : calls[c].pc \in {"idle", "done"} /\ ~calls[c].storeFailed

(* C38: when no call is under way, the Counter's seq is the number of
   Orders that carry an order number. *)
C38_OrderNumbersWithoutGaps ==
  Quiescent =>
    counter = Cardinality({o \in orders :
                             Has(o, "orderNumber") /\ o.orderNumber # <<>>})

(* C39: a step of an updateCartItemPack call leaves every cart entry of a
   user other than the call's requester in the store as it was. *)
C39_OtherUsersEntriesUntouched ==
  [][\A c \in Calls :
       (calls[c].pc # "idle" /\ calls'[c] # calls[c]) =>
         \A e \in carts : e.userId # calls[c].req.user => e \in carts']_vars

(* The quantity a user holds of a drink in a set of cart entries, summed
   over all packs. *)
RECURSIVE QuantitySum(_)
QuantitySum(S) ==
  IF S = {} THEN 0
  ELSE LET e == CHOOSE x \in S : TRUE IN e.quantity + QuantitySum(S \ {e})

Held(entries, userId, drinkId) ==
  QuantitySum({e \in entries : e.userId = userId /\ e.drinkId = drinkId})

(* C40: when the only call so far, an updateCartItemPack call of a user for
   one of that user's own entries, has answered 200, the user holds of the
   entry's drink the same total quantity as before the call. *)
C40_PackChangeConservesQuantity ==
  \A c \in Calls :
    (/\ Done(c) /\ calls[c].resp.status = 200
     /\ \A d \in Calls \ {c} : calls[d].pc = "idle"
     /\ calls[c].cartItem.userId = calls[c].req.user) =>
      Held(carts, calls[c].req.user, calls[c].cartItem.drinkId)
        = Held(InitCartEntries, calls[c].req.user, calls[c].cartItem.drinkId)
====
